---------------------------- MODULE Spec2Model ----------------------------
(***************************************************************************)
(* Type Town: the agent simulation (StaticAgentSimulation, the revision    *)
(* with the decision engine and the NPC control API) and the worker        *)
(* gateway (ClientLLMWorkerService).                                       *)
(*                                                                         *)
(* Every handler of the simulation runs to completion inside one turn of   *)
(* the event loop, so each is one action.  A handler that draws random     *)
(* numbers is modelled by the SET of worlds it can leave behind; loops are *)
(* folds over these sets, in the iteration order of the code.              *)
(*                                                                         *)
(* Scene.  All positions lie on the horizontal line y = 300, so that       *)
(* Math.sqrt(dx*dx + dy*dy) is the integer |dx| and the movement step is   *)
(* exact.  The cast is the seed NPC 'lucky' at its seed position, custom   *)
(* NPCs and user characters spawned on that line (inside the ranges of     *)
(* createCustomNPC and addUserCharacter).  A world in which an agent heads *)
(* for a point off the line is not followed (InScene).                     *)
(***************************************************************************)
EXTENDS Integers, Sequences, FiniteSets, Bags, TLC

VARIABLES
    agents,         \* this.agents: id -> Agent (a function on the ids in the Map)
    agentOrder,     \* insertion order of this.agents (Map iteration order)
    conversations,  \* this.conversations: sequence indexed by conversation id, in insertion order
    ended,          \* history: ids of the conversations endConversation has run for
    timers,         \* bag of deferred turns armed by setTimeout and not yet fired
    pendingGen,     \* bag of generateConversationMessage calls suspended at the await
    llmReady,       \* clientLLM.isReady()
    now,            \* Date.now(), in ms since the world was built
    userCount,      \* user characters created so far (their ids are fresh)
    npcCount,       \* custom NPCs created so far (their ids are fresh)
    rejections,     \* history: generations the gateway has rejected so far
    readyChanges,   \* history: times the gateway's readiness has changed
    steps,          \* history: operations performed so far
    scanned,        \* history, kept where the conversation lifecycle is followed:
                    \* ids of the conversations started by a proximity scan
    \* the tick loop, followed where start() and stop() are called
    isRunning,       \* this.isRunning
    updateInterval,  \* this.updateInterval: the id setInterval returned, 0 = undefined
    intervals,       \* ids of the interval timers armed in the window
    intervalCount,   \* interval timers created so far (ids are 1, 2, ...)
    \* ClientLLMWorkerService
    worker,          \* this.worker is not null
    requestCounter,  \* this.requestCounter
    pendingRequests, \* keys of this.pendingRequests
    timeouts,        \* ids of the requests whose timeout is armed
    inbox,           \* requests posted to the worker and not yet answered
    promises,        \* id -> state of the promise sendWorkerRequest returned
    isInitialized,   \* this.isInitialized
    isInitializing,  \* this.isInitializing
    currentModel,    \* this.currentModel
    initCalls,       \* the calls of initialize(): where each stands
    \* one call of generateFallbackMessage
    fbAgent,         \* agent.id
    fbOther,         \* otherAgent.name
    fbType,          \* type
    fbMessage,       \* the string returned, NoText before the call
    \* one call of cleanResponse
    crResponse,      \* response, as the sequence of its characters
    crCleaned,       \* the string returned, NotCleaned before the call
    \* ClientLLMService (the instance clientLLM)
    clientLLM,       \* its fields textGenerator, isLoading, currentModel
    llmCalls,        \* the calls of clientLLM.initialize(): where each stands
    \* the LLM worker
    llmWorker,       \* its variables textGenerator, isInitialized,
                     \* isInitializing, currentModelName
    workerCalls      \* the calls of initializeLLM(): where each stands

loopVars == <<isRunning, updateInterval, intervals, intervalCount>>
crVars == <<crResponse, crCleaned>>
simVars == <<agents, agentOrder, conversations, ended, timers, pendingGen,
             llmReady, now, userCount, npcCount, rejections, readyChanges, steps,
             scanned, loopVars, crVars>>
initVars == <<isInitialized, isInitializing, currentModel, initCalls>>
gwVars == <<worker, requestCounter, pendingRequests, timeouts, inbox, promises,
            initVars>>
fbVars == <<fbAgent, fbOther, fbType, fbMessage>>
llmVars == <<clientLLM, llmCalls, llmWorker, workerCalls>>
vars == <<simVars, gwVars, fbVars, llmVars>>

---------------------------------------------------------------------------
(* Bounds of the model *)

\* conversations ever created
MaxConvs == 2
\* messages all conversations together may hold before the model stops following
MaxMessages == 7
\* entries of one agent's memory list
MaxMemLen == 3
\* messages typed by users, over all conversations
MaxUserMessages == 2
\* entries of one agent's goal list
MaxGoals == 6
\* entries of one agent's memory list where goals are being given
MaxGoalMemLen == 12
\* user characters ever created
MaxUsers == 1
\* custom NPCs ever created
MaxNPCs == 1
\* times the clock is advanced
MaxClockSteps == 1
\* what one advance of the clock adds, in ms
ClockStep == 61000
\* generations the gateway rejects
MaxRejections == 1
\* times the gateway becomes ready or stops being ready
MaxReadyChanges == 1
\* operations one behaviour is followed for
MaxSteps == 8
\* top-level calls of clientLLM.initialize()
MaxLLMCalls == 3
\* 'initialize' and 'switchModel' messages the LLM worker receives
MaxWorkerCalls == 3
\* calls of the gateway's initialize()
MaxInitCalls == 3
\* interval timers start() creates
MaxIntervals == 3
\* characters of a response given to cleanResponse
MaxResponseLen == 4
\* how far from where it stands a user character is sent
MaxWalk == 30
\* ticks a walk is followed for
MaxWalkTicks == 20

(* Program constants *)
DistilGPT2 == "Xenova/distilgpt2"
Llama1B == "onnx-community/Llama-3.2-1B-Instruct"
\* the model names in use: the light default and one of the larger models
Models == {DistilGPT2, Llama1B}
\* supportedModels[modelName].requiresWebGPU
requiresWebGPU(modelName) == modelName = Llama1B
MessageCap == 6
MaxDuration == 60000
ArrivalThreshold == 5
Speed == 2
TriggerDistance == 120
NearbyRadius == 200
DirectMessageDistance == 80
TalkDistance == 100
StandOff == 50
MemoryCap == 10
GoalCap == 5

LineY == 300

---------------------------------------------------------------------------
(* Values *)

NoTarget == [x |-> -1, y |-> -1]      \* targetPosition === undefined
NoConv == 0                           \* currentConversation === undefined
NoAgent == "undefined"                \* Array.find found nothing
NoText == "undefined"                 \* lastMessage === undefined

Pos(x, y) == [x |-> x, y |-> y]

FallbackText == "<fallback line>"     \* what generateFallbackMessage returned
GeneratedText == "<cleaned model output>" \* cleanResponse(await generateResponse)
UserTexts == {"hello"}

Abs(n) == IF n < 0 THEN -n ELSE n

SeqToSet(s) == {s[i] : i \in 1..Len(s)}

RECURSIVE SelectSeqIn(_, _)
\* Array.filter(x => set.has(x)) keeping the order
SelectSeqIn(s, S) ==
    IF s = <<>> THEN <<>>
    ELSE (IF Head(s) \in S THEN <<Head(s)>> ELSE <<>>) \o SelectSeqIn(Tail(s), S)


---------------------------------------------------------------------------
(* The world a handler works on: the fields of the simulation object, the  *)
(* event loop's armed timers and suspended calls, what the handler reads   *)
(* from outside (clock, gateway readiness), what it returns, and the log   *)
(* of the calls of startConversation it has made so far (with whether both *)
(* agents were free when the call was made), of the phases of the tick it  *)
(* has gone through, and of the decisions the Decision Engine has taken    *)
(* (with whether the deciding agent was in a conversation or moving).      *)
(* The timestamps of messages and lastMessageTime are left out: nothing in *)
(* the simulation's control flow reads them.                               *)

\* cleanResponse has not returned
NotCleaned == <<"undefined">>

World == [agents |-> agents, order |-> agentOrder, convs |-> conversations,
          ended |-> ended, timers |-> timers, pending |-> pendingGen,
          ready |-> llmReady, now |-> now, ret |-> TRUE, starts |-> <<>>,
          phases |-> <<>>, decisions |-> <<>>]

HasAgent(w, id) == id \in DOMAIN w.agents
HasConv(w, cid) == cid \in DOMAIN w.convs

SetAgent(w, id, a) == [w EXCEPT !.agents[id] = a]

\* Bind: run handler step F on every world of S
Bind(S, F(_)) == UNION {F(w) : w \in S}

\* getDistance squared; the code's comparisons of distances are compared squared
Dist2(p, q) == (p.x - q.x) * (p.x - q.x) + (p.y - q.y) * (p.y - q.y)

ISqrt(n) == CHOOSE r \in 0..n : r * r <= n /\ (r + 1) * (r + 1) > n

\* getDistance: Math.sqrt(dx*dx + dy*dy), exact on the line of the scene
getDistance(p, q) == IF p.y = q.y THEN Abs(p.x - q.x) ELSE ISqrt(Dist2(p, q))

---------------------------------------------------------------------------
(* updateMovement *)

\* updateMovement's step for one agent with arrival declared only on the
\* target point itself
moveAgentToThePoint(a) ==
    IF a.isMoving /\ a.targetPosition # NoTarget
    THEN LET dx == a.targetPosition.x - a.position.x
             dy == a.targetPosition.y - a.position.y
             distance == getDistance(a.targetPosition, a.position)
         IN IF dx * dx + dy * dy < 1
            THEN [a EXCEPT !.isMoving = FALSE, !.targetPosition = NoTarget]
            ELSE [a EXCEPT !.position = Pos(a.position.x + (dx * Speed) \div distance,
                                            a.position.y + (dy * Speed) \div distance)]
    ELSE a

\* world w once one more phase of the tick has been entered
Entering(w, phase) == [w EXCEPT !.phases = Append(@, phase)]

\* the body of updateMovement's forEach, for one agent
moveAgent(a) ==
    IF a.isMoving /\ a.targetPosition # NoTarget
    THEN LET dx == a.targetPosition.x - a.position.x
             dy == a.targetPosition.y - a.position.y
             distance == getDistance(a.targetPosition, a.position)
         IN IF dx * dx + dy * dy < ArrivalThreshold * ArrivalThreshold
            THEN [a EXCEPT !.isMoving = FALSE, !.targetPosition = NoTarget]
            ELSE [a EXCEPT !.position = Pos(a.position.x + (dx * Speed) \div distance,
                                            a.position.y + (dy * Speed) \div distance)]
    ELSE a

updateMovement(w) ==
    [Entering(w, "updateMovement")
        EXCEPT !.agents = [id \in DOMAIN w.agents |-> moveAgent(w.agents[id])]]

---------------------------------------------------------------------------
(* The decision engine's pure parts *)

\* agent.identity.toLowerCase().includes(word), for the identities of the cast
IdentityHas(id, word) == id = "lucky" /\ word = "curious"

\* getRecentConversationCount: no memory note of the cast contains 'conversation'
getRecentConversationCount(a) == 0

\* getSocialScore, in hundredths
getSocialScore(id, a) ==
    LET base == 50
        s1 == IF IdentityHas(id, "social") \/ IdentityHas(id, "friendly")
                 \/ IdentityHas(id, "outgoing") THEN base + 30 ELSE base
        s2 == IF IdentityHas(id, "shy") \/ IdentityHas(id, "quiet") THEN s1 - 20 ELSE s1
        s3 == IF getRecentConversationCount(a) > 2 THEN s2 - 10 ELSE s2
    IN IF s3 < 0 THEN 0 ELSE IF s3 > 100 THEN 100 ELSE s3

\* getExplorationScore, in hundredths
getExplorationScore(id) ==
    LET base == 50
        s1 == IF IdentityHas(id, "curious") \/ IdentityHas(id, "explorer")
                 \/ IdentityHas(id, "adventurous") THEN base + 40 ELSE base
        s2 == IF IdentityHas(id, "homebody") \/ IdentityHas(id, "cautious")
              THEN s1 - 20 ELSE s1
    IN IF s2 < 0 THEN 0 ELSE IF s2 > 100 THEN 100 ELSE s2

\* getHomeLocation: the hash of the id; 'lucky' hashes to 103324392, a custom
\* NPC's id is random and the model takes one whose home lies on the line
getHomeLocation(id) == IF id = "lucky" THEN Pos(592, 610) ELSE Pos(208, LineY)

\* findInterestingDestination: a random point of the map; the model draws it
\* a little to the right of the agent, on the line
ExploreOffsets == {4}
findInterestingDestination(a) ==
    {Pos(a.position.x + d, a.position.y) : d \in ExploreOffsets}

\* findNearbyAgents, then the filter of makeIntelligentDecision: the other
\* agents within the radius that are free, in Map order
availableAgents(w, id) ==
    SelectSeqIn(w.order,
        {o \in DOMAIN w.agents :
            /\ o # id
            /\ Dist2(w.agents[id].position, w.agents[o].position)
                   <= NearbyRadius * NearbyRadius
            /\ w.agents[o].currentConversation = NoConv
            /\ ~w.agents[o].isMoving})

\* evaluateDecisionOptions: the options on offer (priority in 1/1000), for
\* every destination findInterestingDestination may draw
evaluateDecisionOptions(w, id) ==
    LET a == w.agents[id]
        avail == availableAgents(w, id)
    IN (IF Len(avail) > 0
        THEN {[type |-> "socialize", priority |-> getSocialScore(id, a) * 4,
               target |-> avail[1], at |-> NoTarget]}
        ELSE {})
       \cup {[type |-> "explore", priority |-> getExplorationScore(id) * 3,
              target |-> NoAgent, at |-> p] : p \in findInterestingDestination(a)}
       \cup (IF Len(a.memories) > 0
             THEN {[type |-> "return_home", priority |-> 200,
                    target |-> NoAgent, at |-> getHomeLocation(id)]}
             ELSE {})
       \cup {[type |-> "idle", priority |-> 100, target |-> NoAgent, at |-> NoTarget]}

\* selectDecisionWithRandomness: a draw weighted by priority squared returns
\* any option of positive weight
selectDecisionWithRandomness(decisions) ==
    {d \in decisions : d.priority * d.priority > 0}

\* agent.memories.push(note); the simulation never reads a note back, and the
\* model keeps one symbol for every note
Note == "note"
Remember(a, note) == [a EXCEPT !.memories = Append(@, Note)]

\* Array.slice(-n)
LastN(s, n) == IF Len(s) > n THEN SubSeq(s, Len(s) - n + 1, Len(s)) ELSE s
\* Array.slice(0, n)
FirstN(s, n) == IF Len(s) > n THEN SubSeq(s, 1, n) ELSE s


---------------------------------------------------------------------------
(* The conversation engine and the decision engine call each other:        *)
(* generateConversationMessage ends a conversation at the cap,             *)
(* endConversation runs a decision for each participant, and a 'socialize' *)
(* decision starts a conversation, whose opening message is generated in   *)
(* the same call.                                                          *)

RECURSIVE startConversation(_, _, _)
RECURSIVE generateConversationMessage(_, _, _)
RECURSIVE appendMessage(_, _, _, _, _)
RECURSIVE endConversation(_, _)
RECURSIVE makeIntelligentDecision(_, _)
RECURSIVE executeDecision(_, _, _)
RECURSIVE catchGeneration(_, _, _, _)

\* a deferred generateConversationMessage(agentId, 'continue'); conv is history:
\* the conversation whose message armed the timer
Timer(agentId, cid) == [agentId |-> agentId, conv |-> cid]

\* a call suspended at  await clientLLM.generateResponse(...) : it holds the
\* agent, the other agent and the conversation object it looked up before
Suspended(agentId, otherId, cid, type) ==
    [agentId |-> agentId, otherId |-> otherId, conv |-> cid, type |-> type]

\* conversation.participants.find(id => id !== agentId)
otherParticipant(conv, agentId) ==
    IF conv.participants[1] # agentId THEN conv.participants[1]
    ELSE IF conv.participants[2] # agentId THEN conv.participants[2]
    ELSE NoAgent

\* startConversation: registers the conversation, points both agents at it and
\* calls generateConversationMessage(agent1Id, 'start')
startConversation(w, agent1Id, agent2Id) ==
    LET cid == Len(w.convs) + 1
        conv == [id |-> cid, participants |-> <<agent1Id, agent2Id>>,
                 messages |-> <<>>, startTime |-> w.now]
        call == [agent1Id |-> agent1Id, agent2Id |-> agent2Id,
                 free |-> /\ w.agents[agent1Id].currentConversation = NoConv
                          /\ w.agents[agent2Id].currentConversation = NoConv]
        w1 == [w EXCEPT !.convs = Append(@, conv), !.starts = Append(@, call)]
        w2 == [w1 EXCEPT !.agents[agent1Id].currentConversation = cid]
        w3 == [w2 EXCEPT !.agents[agent2Id].currentConversation = cid]
    IN generateConversationMessage(w3, agent1Id, "start")

\* generateConversationMessage up to the await: the early returns, then either
\* the call suspends on the gateway or (gateway not ready) the fallback line is
\* appended in the same turn
generateConversationMessage(w, agentId, type) ==
    IF ~HasAgent(w, agentId) THEN {w}
    ELSE IF w.agents[agentId].currentConversation = NoConv THEN {w}
    ELSE IF ~HasConv(w, w.agents[agentId].currentConversation) THEN {w}
    ELSE LET cid == w.agents[agentId].currentConversation
             otherId == otherParticipant(w.convs[cid], agentId)
         IN IF ~HasAgent(w, otherId) THEN {w}
            ELSE IF w.ready
            THEN {[w EXCEPT !.pending =
                      @ (+) SetToBag({Suspended(agentId, otherId, cid, type)})]}
            ELSE appendMessage(w, agentId, otherId, cid, FallbackText)

\* generateConversationMessage from "Add message to conversation" on: the push
\* on the conversation object held by the call, lastMessage on the agent object
\* held by the call, then the other agent's turn is scheduled or, at the cap,
\* the conversation the agent is in NOW is ended
appendMessage(w, agentId, otherId, cid, text) ==
    LET w1 == [w EXCEPT !.convs[cid].messages =
                  Append(@, [agentId |-> agentId, text |-> text])]
        w2 == IF HasAgent(w1, agentId)
              THEN [w1 EXCEPT !.agents[agentId].lastMessage = text]
              ELSE w1
        current == IF HasAgent(w2, agentId)
                   THEN w2.agents[agentId].currentConversation ELSE NoConv
    IN IF Len(w2.convs[cid].messages) < MessageCap
       THEN {[w2 EXCEPT !.timers = @ (+) SetToBag({Timer(otherId, cid)})]}
       ELSE endConversation(w2, current)

\* a catch block that swallows the error and abandons the turn
catchAndAbandon(w, agentId, otherId, cid) == {w}

\* generateConversationMessage resumed in its catch block: the fallback line
\* becomes the message and the call goes on to "Add message to conversation"
catchGeneration(w, agentId, otherId, cid) ==
    appendMessage(w, agentId, otherId, cid, FallbackText)

\* endConversation: frees every participant still in the Map and runs
\* moveAgentRandomly (= makeIntelligentDecision) for it; the conversation
\* stays in this.conversations
endConversation(w, cid) ==
    IF ~HasConv(w, cid) THEN {w}
    ELSE LET parts == w.convs[cid].participants
             free(w0, id) ==
                 IF HasAgent(w0, id)
                 THEN makeIntelligentDecision(
                          [w0 EXCEPT !.agents[id].currentConversation = NoConv], id)
                 ELSE {w0}
             w1 == [w EXCEPT !.ended = @ \cup {cid}]
         IN Bind(free(w1, parts[1]), LAMBDA x : free(x, parts[2]))

\* makeIntelligentDecision
makeIntelligentDecision(w, id) ==
    IF w.agents[id].isUserControlled THEN {w}
    ELSE LET taken == [agent |-> id,
                       busy |-> w.agents[id].currentConversation # NoConv,
                       moving |-> w.agents[id].isMoving]
             w1 == [w EXCEPT !.decisions = Append(@, taken)]
         IN UNION {executeDecision(w1, id, d) :
                      d \in selectDecisionWithRandomness(evaluateDecisionOptions(w1, id))}

\* executeDecision
executeDecision(w, id, decision) ==
    LET a == w.agents[id] IN
    CASE decision.type = "socialize" ->
            IF decision.target \in SeqToSet(availableAgents(w, id))
            THEN startConversation(w, id, decision.target)
            ELSE {w}
      [] decision.type = "explore" ->
            LET note == "Decided to explore area at x, y"
                a1 == Remember([a EXCEPT !.targetPosition = decision.at,
                                         !.isMoving = TRUE], note)
            IN {SetAgent(w, id, [a1 EXCEPT !.memories = LastN(@, MemoryCap)])}
      [] decision.type = "return_home" ->
            {SetAgent(w, id, Remember([a EXCEPT !.targetPosition = decision.at,
                                                !.isMoving = TRUE],
                                      "Returning to familiar area"))}
      [] decision.type = "idle" ->
            {SetAgent(w, id,
                Remember(a, "Taking a moment to rest and observe surroundings"))}

---------------------------------------------------------------------------
(* The tick *)

IsFree(a) == a.currentConversation = NoConv /\ ~a.isMoving

RECURSIVE scanPairs(_, _, _, _)
\* the double loop of checkForConversations over the list of free agents taken
\* at its start: pair (i, j), then the pairs after it
scanPairs(w, freeAgents, i, j) ==
    IF i > Len(freeAgents) THEN {w}
    ELSE IF j > Len(freeAgents) THEN scanPairs(w, freeAgents, i + 1, i + 2)
    ELSE LET agent1 == freeAgents[i]
             agent2 == freeAgents[j]
             close == Dist2(w.agents[agent1].position, w.agents[agent2].position)
                          < TriggerDistance * TriggerDistance
             after == IF close
                      THEN {w} \cup startConversation(w, agent1, agent2)
                      ELSE {w}
         IN Bind(after, LAMBDA x : scanPairs(x, freeAgents, i, j + 1))

\* checkForConversations
checkForConversations(w) ==
    scanPairs(Entering(w, "checkForConversations"),
              SelectSeqIn(w.order, {id \in DOMAIN w.agents : IsFree(w.agents[id])}),
              1, 2)

RECURSIVE expireFrom(_, _, _)
\* the forEach of updateConversations over the conversations present at its start
expireFrom(w, cid, last) ==
    IF cid > last THEN {w}
    ELSE LET after == IF w.now - w.convs[cid].startTime > MaxDuration
                      THEN endConversation(w, cid)
                      ELSE {w}
         IN Bind(after, LAMBDA x : expireFrom(x, cid + 1, last))

\* updateConversations
updateConversations(w) ==
    expireFrom(Entering(w, "updateConversations"), 1, Len(w.convs))

RECURSIVE planFrom(_, _)
\* the forEach of planNewActions over the agents, in Map order
planFrom(w, ids) ==
    IF ids = <<>> THEN {w}
    ELSE LET id == Head(ids)
             after == IF IsFree(w.agents[id])
                      THEN {w} \cup makeIntelligentDecision(w, id)
                      ELSE {w}
         IN Bind(after, LAMBDA x : planFrom(x, Tail(ids)))

\* planNewActions
planNewActions(w) == planFrom(Entering(w, "planNewActions"), w.order)

\* a tick that takes its decisions first and notifies the observer before
\* it looks at the conversations
updateOutOfOrder(w) ==
    Bind({Entering(x, "onUpdate") :
             x \in Bind(planNewActions(w),
                        LAMBDA y : checkForConversations(updateMovement(y)))},
         updateConversations)

\* update: one tick, and the call of the observer that ends it
update(w) ==
    {Entering(x, "onUpdate") :
        x \in Bind(Bind(checkForConversations(updateMovement(w)), updateConversations),
                   planNewActions)}


---------------------------------------------------------------------------
(* The cast *)

NewAgent(name, x, user, memories, goals) ==
    [name |-> name, position |-> Pos(x, LineY), targetPosition |-> NoTarget,
     currentConversation |-> NoConv, isMoving |-> FALSE, isUserControlled |-> user,
     lastMessage |-> NoText,
     memories |-> memories, goals |-> goals]

\* initializeAgents, the entry of 'lucky' (at (200, 300), which is on the line)
Lucky ==
    NewAgent("Lucky", 200, FALSE,
             <<Note, Note>>,
             <<"Share space adventure stories", "Learn local gossip">>)

\* where addUserCharacter (x in [100, 500)) and createCustomNPC (x in [50, 450))
\* may put a new agent: 30 from lucky, and 96 from lucky (66 from the user)
UserSpawnXs == {202}
NPCSpawnXs == {204}
\* where moveUserCharacter is asked to send a user character
MoveTargets == {236}
\* how far from where it stands directNPCToLocation is asked to send an NPC
MoveOffsets == {6}
\* the goal strings given to NPCs
GoalTexts == {"explore forest"}
\* an id that names no agent
MissingId == "nobody"

UserId(n) == "user_" \o ToString(n)
NPCId(n) == "npc_" \o ToString(n)

Fail(w) == {[w EXCEPT !.ret = FALSE]}

---------------------------------------------------------------------------
(* The control API *)

\* addUserCharacter
addUserCharacter(w, userId, x) ==
    {[w EXCEPT !.agents = [id \in DOMAIN w.agents \cup {userId} |->
                              IF id = userId
                              THEN NewAgent("Visitor", x, TRUE, <<>>,
                                     <<"Interact with other characters",
                                       "Have interesting conversations">>)
                              ELSE w.agents[id]],
               !.order = Append(@, userId)]}

\* createCustomNPC (called without a plan)
createCustomNPC(w, npcId, x) ==
    {[w EXCEPT !.agents = [id \in DOMAIN w.agents \cup {npcId} |->
                              IF id = npcId
                              THEN NewAgent("Custom", x, FALSE,
                                     <<Note>>,
                                     <<"Interact with others", "Be helpful">>)
                              ELSE w.agents[id]],
               !.order = Append(@, npcId)]}

\* Map.delete
deleteAgent(w, id) ==
    [w EXCEPT !.agents = [i \in DOMAIN w.agents \ {id} |-> w.agents[i]],
              !.order = SelectSeqIn(w.order, DOMAIN w.agents \ {id})]

\* removeUserCharacter
removeUserCharacter(w, userId) ==
    IF ~HasAgent(w, userId) THEN Fail(w)
    ELSE IF ~w.agents[userId].isUserControlled THEN Fail(w)
    ELSE LET after == IF w.agents[userId].currentConversation # NoConv
                      THEN endConversation(w, w.agents[userId].currentConversation)
                      ELSE {w}
         IN {deleteAgent(x, userId) : x \in after}

\* moveUserCharacter without the test that the agent is user-controlled
moveAnyCharacter(w, userId, targetPosition) ==
    IF ~HasAgent(w, userId) THEN Fail(w)
    ELSE {[w EXCEPT !.agents[userId].targetPosition = targetPosition,
                    !.agents[userId].isMoving = TRUE]}

\* moveUserCharacter
moveUserCharacter(w, userId, targetPosition) ==
    IF ~HasAgent(w, userId) THEN Fail(w)
    ELSE IF ~w.agents[userId].isUserControlled THEN Fail(w)
    ELSE {[w EXCEPT !.agents[userId].targetPosition = targetPosition,
                    !.agents[userId].isMoving = TRUE]}

\* sendUserMessage's push with the target's id in the place of the sender's
pushUserMessageAsTarget(w, userId, message, targetAgentId) ==
    LET cid == w.agents[userId].currentConversation
    IN IF ~HasConv(w, cid) THEN w
       ELSE [w EXCEPT !.convs[cid].messages =
                          Append(@, [agentId |-> targetAgentId, text |-> message]),
                      !.agents[userId].lastMessage = message,
                      !.timers = @ (+) SetToBag({Timer(targetAgentId, cid)})]

\* sendUserMessage, from "Add message to conversation" on
pushUserMessage(w, userId, message, targetAgentId) ==
    LET cid == w.agents[userId].currentConversation
    IN IF ~HasConv(w, cid) THEN w
       ELSE [w EXCEPT !.convs[cid].messages =
                          Append(@, [agentId |-> userId, text |-> message]),
                      !.agents[userId].lastMessage = message,
                      !.timers = @ (+) SetToBag({Timer(targetAgentId, cid)})]

\* sendUserMessage; targetAgentId = NoAgent when the argument is left out
sendUserMessage(w, userId, message, targetAgentId) ==
    IF ~HasAgent(w, userId) THEN Fail(w)
    ELSE IF ~w.agents[userId].isUserControlled THEN Fail(w)
    ELSE IF targetAgentId = NoAgent THEN {w}
    ELSE IF ~HasAgent(w, targetAgentId) THEN Fail(w)
    ELSE IF w.agents[targetAgentId].currentConversation # NoConv THEN Fail(w)
    ELSE IF Dist2(w.agents[userId].position, w.agents[targetAgentId].position)
                > DirectMessageDistance * DirectMessageDistance THEN Fail(w)
    ELSE LET started == IF w.agents[userId].currentConversation = NoConv
                        THEN startConversation(w, userId, targetAgentId)
                        ELSE {w}
         IN {pushUserMessage(x, userId, message, targetAgentId) : x \in started}

\* giveNPCGoal with goals.push in the place of goals.unshift
appendNPCGoal(w, npcId, goal) ==
    IF ~HasAgent(w, npcId) THEN Fail(w)
    ELSE IF w.agents[npcId].isUserControlled THEN Fail(w)
    ELSE LET a == w.agents[npcId]
             a1 == [a EXCEPT !.goals = FirstN(@ \o <<goal>>, GoalCap)]
             a2 == Remember(a1, "Given new goal: " \o goal)
         IN makeIntelligentDecision(SetAgent(w, npcId, a2), npcId)

\* giveNPCGoal
giveNPCGoal(w, npcId, goal) ==
    IF ~HasAgent(w, npcId) THEN Fail(w)
    ELSE IF w.agents[npcId].isUserControlled THEN Fail(w)
    ELSE LET a == w.agents[npcId]
             a1 == [a EXCEPT !.goals = FirstN(<<goal>> \o @, GoalCap)]
             a2 == Remember(a1, "Given new goal: " \o goal)
         IN makeIntelligentDecision(SetAgent(w, npcId, a2), npcId)

\* directNPCToLocation (called without a purpose)
directNPCToLocation(w, npcId, targetPosition) ==
    IF ~HasAgent(w, npcId) THEN Fail(w)
    ELSE IF w.agents[npcId].isUserControlled THEN Fail(w)
    ELSE LET a == w.agents[npcId]
             note == "Directed to move to location (x, y)"
             a1 == Remember([a EXCEPT !.targetPosition = targetPosition,
                                      !.isMoving = TRUE], note)
         IN {SetAgent(w, npcId,
                [a1 EXCEPT !.goals = <<"Move to specified location">> \o @])}

\* makeNPCTalkTo with the two agents exchanged in initiateConversation
makeNPCTalkFrom(w, npcId, targetNpcId) ==
    IF ~HasAgent(w, npcId) \/ ~HasAgent(w, targetNpcId) THEN Fail(w)
    ELSE IF w.agents[npcId].isUserControlled
            \/ w.agents[targetNpcId].isUserControlled THEN Fail(w)
    ELSE IF w.agents[npcId].currentConversation # NoConv
            \/ w.agents[targetNpcId].currentConversation # NoConv THEN Fail(w)
    ELSE LET npc == w.agents[npcId]
             target == w.agents[targetNpcId]
             dx == target.position.x - npc.position.x
             dy == target.position.y - npc.position.y
             magnitude == getDistance(target.position, npc.position)
         IN IF dx * dx + dy * dy > TalkDistance * TalkDistance
            THEN {SetAgent(w, npcId,
                    [npc EXCEPT
                       !.targetPosition =
                           Pos(target.position.x - (dx * StandOff) \div magnitude,
                               target.position.y - (dy * StandOff) \div magnitude),
                       !.isMoving = TRUE,
                       !.goals = <<"Talk to " \o target.name>> \o @])}
            ELSE startConversation(w, targetNpcId, npcId)

\* makeNPCTalkTo
makeNPCTalkTo(w, npcId, targetNpcId) ==
    IF ~HasAgent(w, npcId) \/ ~HasAgent(w, targetNpcId) THEN Fail(w)
    ELSE IF w.agents[npcId].isUserControlled
            \/ w.agents[targetNpcId].isUserControlled THEN Fail(w)
    ELSE IF w.agents[npcId].currentConversation # NoConv
            \/ w.agents[targetNpcId].currentConversation # NoConv THEN Fail(w)
    ELSE LET npc == w.agents[npcId]
             target == w.agents[targetNpcId]
             dx == target.position.x - npc.position.x
             dy == target.position.y - npc.position.y
             magnitude == getDistance(target.position, npc.position)
         IN IF dx * dx + dy * dy > TalkDistance * TalkDistance
            THEN {SetAgent(w, npcId,
                    [npc EXCEPT
                       !.targetPosition =
                           Pos(target.position.x - (dx * StandOff) \div magnitude,
                               target.position.y - (dy * StandOff) \div magnitude),
                       !.isMoving = TRUE,
                       !.goals = <<"Talk to " \o target.name>> \o @])}
            ELSE startConversation(w, npcId, targetNpcId)

---------------------------------------------------------------------------
(* What the model follows *)

RECURSIVE MessageCount(_)
MessageCount(convs) ==
    IF convs = <<>> THEN 0 ELSE Len(Head(convs).messages) + MessageCount(Tail(convs))

RECURSIVE TypedCount(_)
TypedCount(convs) ==
    IF convs = <<>> THEN 0
    ELSE Len(SelectSeq(Head(convs).messages, LAMBDA m : m.text \in UserTexts))
         + TypedCount(Tail(convs))

InScene(w) ==
    /\ Len(w.convs) <= MaxConvs
    /\ MessageCount(w.convs) <= MaxMessages
    /\ TypedCount(w.convs) <= MaxUserMessages
    /\ \A id \in DOMAIN w.agents :
          /\ Len(w.agents[id].memories) <= MaxMemLen
          /\ Len(w.agents[id].goals) <= MaxGoals
          /\ w.agents[id].targetPosition # NoTarget
                 => w.agents[id].targetPosition.y = LineY

\* a handler ran and left world w
Commit(w) ==
    /\ InScene(w)
    /\ agents' = w.agents
    /\ agentOrder' = w.order
    /\ conversations' = w.convs
    /\ ended' = w.ended
    /\ timers' = w.timers
    /\ pendingGen' = w.pending

\* the scene in which goals and directions are given: longer memory lists
GoalScene(w) ==
    /\ Len(w.convs) <= MaxConvs
    /\ MessageCount(w.convs) <= MaxMessages
    /\ \A id \in DOMAIN w.agents :
          /\ Len(w.agents[id].memories) <= MaxGoalMemLen
          /\ Len(w.agents[id].goals) <= MaxGoals

\* a handler ran in that scene and left world w
CommitGoals(w) ==
    /\ GoalScene(w)
    /\ agents' = w.agents
    /\ agentOrder' = w.order
    /\ conversations' = w.convs
    /\ ended' = w.ended
    /\ timers' = w.timers
    /\ pendingGen' = w.pending

Ids == DOMAIN agents \cup {MissingId}

---------------------------------------------------------------------------
(* Actions *)

\* one more operation of the simulation has been performed
Step ==
    /\ steps < MaxSteps
    /\ steps' = steps + 1
    /\ UNCHANGED <<scanned, loopVars, crVars, gwVars, fbVars, llmVars>>

InitSimulation ==
    /\ agents = [id \in {"lucky"} |-> Lucky]
    /\ agentOrder = <<"lucky">>
    /\ conversations = <<>>
    /\ ended = {}
    /\ timers = EmptyBag
    /\ pendingGen = EmptyBag
    /\ llmReady = FALSE
    /\ now = 0
    /\ userCount = 0
    /\ npcCount = 0
    /\ rejections = 0
    /\ readyChanges = 0
    /\ steps = 0
    /\ scanned = {}
    /\ isRunning = FALSE
    /\ updateInterval = 0
    /\ intervals = {}
    /\ intervalCount = 0

\* new ClientLLMWorkerService(): the constructor creates the worker
InitGateway ==
    /\ worker = TRUE
    /\ requestCounter = 0
    /\ pendingRequests = {}
    /\ timeouts = {}
    /\ inbox = {}
    /\ promises = <<>>
    /\ isInitialized = FALSE
    /\ isInitializing = FALSE
    /\ currentModel = DistilGPT2
    /\ initCalls = <<>>

\* generateFallbackMessage has not been called
InitNoFallback ==
    /\ fbAgent = NoAgent
    /\ fbOther = NoText
    /\ fbType = "start"
    /\ fbMessage = NoText

\* a null text generator
NoModel == "null"

\* new ClientLLMService(): nothing is loaded, currentModel is
\* LLM_CONFIG.CLIENT_MODEL; initialize() has not been called
InitClientLLM ==
    /\ clientLLM = [textGenerator |-> NoModel, isLoading |-> FALSE,
                    currentModel |-> DistilGPT2]
    /\ llmCalls = <<>>

\* the worker script has run: nothing is loaded; initializeLLM() has not been
\* called
InitLLMWorker ==
    /\ llmWorker = [textGenerator |-> NoModel, isInitialized |-> FALSE,
                    isInitializing |-> FALSE, currentModelName |-> ""]
    /\ workerCalls = <<>>

\* cleanResponse has not been called
InitNoCleaning ==
    /\ crResponse = <<>>
    /\ crCleaned = NotCleaned

Init ==
    /\ InitSimulation /\ InitGateway /\ InitNoFallback /\ InitNoCleaning
    /\ InitClientLLM /\ InitLLMWorker

\* the setInterval callback
Tick ==
    /\ Step
    /\ \E w \in update(World) : Commit(w)
    /\ UNCHANGED <<llmReady, now, userCount, npcCount, rejections, readyChanges>>

\* a timer armed by generateConversationMessage or sendUserMessage fires
FireTimer ==
    /\ Step
    /\ \E t \in BagToSet(timers) :
          \E w \in generateConversationMessage(
                      [World EXCEPT !.timers = @ (-) SetToBag({t})],
                      t.agentId, "continue") :
              Commit(w)
    /\ UNCHANGED <<llmReady, now, userCount, npcCount, rejections, readyChanges>>

\* clientLLM.generateResponse resolves: the call resumes after the await
GenerationResolves ==
    /\ Step
    /\ \E p \in BagToSet(pendingGen) :
          \E w \in appendMessage([World EXCEPT !.pending = @ (-) SetToBag({p})],
                                 p.agentId, p.otherId, p.conv, GeneratedText) :
              Commit(w)
    /\ UNCHANGED <<llmReady, now, userCount, npcCount, rejections, readyChanges>>

\* clientLLM.generateResponse rejects: the call resumes in the catch block
GenerationRejects ==
    /\ Step
    /\ \E p \in BagToSet(pendingGen) :
          \E w \in catchGeneration([World EXCEPT !.pending = @ (-) SetToBag({p})],
                                    p.agentId, p.otherId, p.conv) :
              Commit(w)
    /\ rejections < MaxRejections
    /\ rejections' = rejections + 1
    /\ UNCHANGED <<llmReady, now, userCount, npcCount, readyChanges>>

\* the model finishes loading, or starts loading again
GatewayChanges ==
    /\ Step
    /\ readyChanges < MaxReadyChanges
    /\ readyChanges' = readyChanges + 1
    /\ llmReady' = ~llmReady
    /\ UNCHANGED <<agents, agentOrder, conversations, ended, timers, pendingGen,
                   now, userCount, npcCount, rejections>>

\* time passes
AdvanceClock ==
    /\ Step
    /\ now < MaxClockSteps * ClockStep
    /\ now' = now + ClockStep
    /\ UNCHANGED <<agents, agentOrder, conversations, ended, timers, pendingGen,
                   llmReady, userCount, npcCount, rejections, readyChanges>>

AddUserCharacter ==
    /\ Step
    /\ userCount < MaxUsers
    /\ userCount' = userCount + 1
    /\ \E x \in UserSpawnXs :
          \E w \in addUserCharacter(World, UserId(userCount + 1), x) :
              Commit(w)
    /\ UNCHANGED <<llmReady, now, npcCount, rejections, readyChanges>>

CreateCustomNPC ==
    /\ Step
    /\ npcCount < MaxNPCs
    /\ npcCount' = npcCount + 1
    /\ \E x \in NPCSpawnXs :
          \E w \in createCustomNPC(World, NPCId(npcCount + 1), x) :
              Commit(w)
    /\ UNCHANGED <<llmReady, now, userCount, rejections, readyChanges>>

RemoveUserCharacter ==
    /\ Step
    /\ \E id \in Ids : \E w \in removeUserCharacter(World, id) :
          Commit(w)
    /\ UNCHANGED <<llmReady, now, userCount, npcCount, rejections, readyChanges>>

MoveUserCharacter ==
    /\ Step
    /\ \E id \in Ids : \E x \in MoveTargets :
          \E w \in moveUserCharacter(World, id, Pos(x, LineY)) :
              Commit(w)
    /\ UNCHANGED <<llmReady, now, userCount, npcCount, rejections, readyChanges>>

SendUserMessage ==
    /\ Step
    /\ \E id \in Ids : \E target \in Ids \cup {NoAgent} : \E text \in UserTexts :
          \E w \in sendUserMessage(World, id, text, target) :
              Commit(w)
    /\ UNCHANGED <<llmReady, now, userCount, npcCount, rejections, readyChanges>>

GiveNPCGoal ==
    /\ Step
    /\ \E id \in Ids : \E goal \in GoalTexts :
          \E w \in giveNPCGoal(World, id, goal) : CommitGoals(w)
    /\ UNCHANGED <<llmReady, now, userCount, npcCount, rejections, readyChanges>>

DirectNPCToLocation ==
    /\ Step
    /\ \E id \in Ids : \E d \in MoveOffsets :
          \E w \in directNPCToLocation(World, id,
                      IF id \in DOMAIN agents
                      THEN Pos(agents[id].position.x + d, LineY)
                      ELSE Pos(d, LineY)) :
              CommitGoals(w)
    /\ UNCHANGED <<llmReady, now, userCount, npcCount, rejections, readyChanges>>

MakeNPCTalkTo ==
    /\ Step
    /\ \E id \in Ids : \E target \in Ids :
          \E w \in makeNPCTalkTo(World, id, target) : Commit(w)
    /\ UNCHANGED <<llmReady, now, userCount, npcCount, rejections, readyChanges>>

\* the tick, the deferred turns, the gateway, the clock and the control
\* operations that add, remove and connect agents; MoveUserCharacter,
\* GiveNPCGoal and DirectNPCToLocation are defined above and not followed here
Next ==
    \/ Tick
    \/ FireTimer
    \/ GenerationResolves
    \/ GenerationRejects
    \/ GatewayChanges
    \/ AdvanceClock
    \/ AddUserCharacter
    \/ CreateCustomNPC
    \/ RemoveUserCharacter
    \/ SendUserMessage
    \/ MakeNPCTalkTo

Spec == Init /\ [][Next]_vars

---------------------------------------------------------------------------
(* Conversation lifecycle: properties *)

ConvIds == 1 .. Len(conversations)

\* started and not yet ended
Active(c) == c \in ConvIds /\ c \notin ended

ParticipantsOf(c) == SeqToSet(conversations[c].participants)

Age(c) == now - conversations[c].startTime

\* C1 -- Exclusivity: no agent id is a participant of more than one active
\* conversation (started and not yet ended), in any reachable state.
Exclusivity ==
    \A id \in DOMAIN agents :
        Cardinality({c \in ConvIds : Active(c) /\ id \in ParticipantsOf(c)}) <= 1

\* C2 -- Cross-reference: for every agent a and active conversation c,
\* a.currentConversation = c.id exactly when a is listed in c.participants.
CrossReference ==
    \A id \in DOMAIN agents : \A c \in ConvIds :
        Active(c) => (agents[id].currentConversation = c <=> id \in ParticipantsOf(c))

\* a conversation below the cap and not older than the maximal duration
Young(c) ==
    /\ Len(conversations[c].messages) < MessageCap
    /\ Age(c) <= MaxDuration

\* C3 -- A tick never clears the currentConversation of a participant of a
\* conversation younger than 60 s with fewer than 6 messages, whatever
\* conversations the agents took part in earlier: in every reachable state,
\* every outcome of update() leaves such a participant in its conversation.
TickSparesYoung ==
    \A w \in update(World) :
        \A c \in ConvIds : \A id \in DOMAIN agents :
            (Young(c) /\ id \in ParticipantsOf(c) /\ agents[id].currentConversation = c)
                => w.agents[id].currentConversation = c

\* no agent's currentConversation references c
Unreferenced(c) == \A id \in DOMAIN agents : agents[id].currentConversation # c

\* C4 -- A conversation that no agent references any more, none of whose
\* participants was removed (no explicit end), has at least 6 messages or an
\* age above 60 s.
EndedOnlyWhenDue ==
    \A c \in ConvIds :
        (Unreferenced(c) /\ ParticipantsOf(c) \subseteq DOMAIN agents)
            => (Len(conversations[c].messages) >= MessageCap \/ Age(c) > MaxDuration)

\* getConversations: Array.from(this.conversations.values())
getConversations == conversations

\* C5 -- After endConversation has run for conversation c, c is no longer
\* returned by getConversations.
EndedIsRemoved ==
    \A c \in ended : \A i \in DOMAIN getConversations : getConversations[i].id # c

\* C6 -- Message cap: every conversation holds at most 6 messages, generated
\* turns and messages typed through sendUserMessage counted together.
MessageCapHolds ==
    \A c \in ConvIds : Len(conversations[c].messages) <= MessageCap

\* C7 -- A deferred turn armed on behalf of conversation c that fires after c
\* has ended appends no message, changes no agent and schedules nothing: the
\* only effect of its firing is that the timer is gone.
StaleTurnIgnored ==
    \A t \in BagToSet(timers) :
        t.conv \in ended =>
            LET w0 == [World EXCEPT !.timers = @ (-) SetToBag({t})]
            IN generateConversationMessage(w0, t.agentId, "continue") = {w0}


\* the world once the suspended call p has been resumed
Resumed(p) == [World EXCEPT !.pending = @ (-) SetToBag({p})]

\* the speaker's turn has been taken in w: exactly one message by the speaker,
\* with the given text, is appended to conversation cid and to no other; below
\* the cap the other participant's turn is scheduled and nothing else happens,
\* at the cap no turn is scheduled for cid and the conversation the speaker is
\* in is ended (its freed participants may go on to their next decision)
TurnTaken(w0, w, agentId, otherId, cid, text) ==
    LET before == w0.convs[cid].messages IN
    /\ w.convs[cid].messages = Append(before, [agentId |-> agentId, text |-> text])
    /\ \A c \in DOMAIN w0.convs : c # cid => w.convs[c] = w0.convs[c]
    /\ IF Len(before) + 1 < MessageCap
       THEN /\ Len(w.convs) = Len(w0.convs)
            /\ w.timers = w0.timers (+) SetToBag({Timer(otherId, cid)})
            /\ w.ended = w0.ended
       ELSE /\ \A t \in BagToSet(w.timers) :
                   t.conv = cid => CopiesIn(t, w.timers) = CopiesIn(t, w0.timers)
            /\ (HasAgent(w0, agentId) /\ w0.agents[agentId].currentConversation = cid)
                   => /\ cid \in w.ended
                      /\ \A id \in DOMAIN w.agents :
                            w.agents[id].currentConversation # cid

\* w with the texts of the messages and of lastMessage erased
Untexted(w) ==
    [w EXCEPT
        !.convs = [c \in DOMAIN @ |->
                     [@[c] EXCEPT !.messages =
                         [i \in DOMAIN @ |-> [@[i] EXCEPT !.text = NoText]]]],
        !.agents = [id \in DOMAIN @ |-> [@[id] EXCEPT !.lastMessage = NoText]]]

\* a deferred turn that passes the early returns of generateConversationMessage
Speaks(t) ==
    /\ t.agentId \in DOMAIN agents
    /\ agents[t.agentId].currentConversation # NoConv
    /\ otherParticipant(conversations[agents[t.agentId].currentConversation],
                        t.agentId) \in DOMAIN agents

\* C8 -- Generation failure is never fatal to a turn: when the gateway rejects
\* a suspended call, and when a turn finds the gateway not ready, exactly one
\* message by the speaker (the fallback line) is appended to the conversation
\* and the turn goes on as after a successful generation: the other
\* participant's turn is scheduled below 6 messages, the conversation is ended
\* otherwise, and but for the text the outcomes are those of a success.
FailureNotFatal ==
    /\ \A p \in BagToSet(pendingGen) :
          LET failed == catchGeneration(Resumed(p), p.agentId, p.otherId, p.conv)
              succeeded == appendMessage(Resumed(p), p.agentId, p.otherId, p.conv,
                                         GeneratedText)
          IN /\ failed # {}
             /\ \A w \in failed :
                   TurnTaken(Resumed(p), w, p.agentId, p.otherId, p.conv, FallbackText)
             /\ {Untexted(w) : w \in failed} = {Untexted(w) : w \in succeeded}
    /\ \A t \in BagToSet(timers) :
          (~llmReady /\ Speaks(t)) =>
              LET w0 == [World EXCEPT !.timers = @ (-) SetToBag({t})]
                  cid == agents[t.agentId].currentConversation
                  turn == generateConversationMessage(w0, t.agentId, "continue")
              IN /\ turn # {}
                 /\ \A w \in turn :
                       TurnTaken(w0, w, t.agentId,
                                 otherParticipant(conversations[cid], t.agentId),
                                 cid, FallbackText)

\* C8 witness: the gateway has rejected the opening turn of the only
\* conversation; the conversation holds the speaker's fallback line and the
\* other participant's turn is armed
RejectedTurnSpoke ==
    /\ rejections = 1
    /\ Len(conversations) = 1
    /\ conversations[1].messages =
           <<[agentId |-> conversations[1].participants[1], text |-> FallbackText]>>
    /\ BagIn(Timer(conversations[1].participants[2], 1), timers)
    /\ pendingGen = EmptyBag

---------------------------------------------------------------------------
(* The worker gateway (ClientLLMWorkerService).  A request is a promise,   *)
(* an entry of pendingRequests, an armed timeout and a message posted to   *)
(* the worker.  The worker answers any posted request, with success or     *)
(* with an error, in any order, or never; it may raise onerror; destroy()  *)
(* may be called at any time.                                              *)

\* requests one behaviour issues
MaxRequests == 3

RequestTypes == {"initialize", "generate"}

Request(id, type) == [id |-> id, type |-> type]

\* promises with the promise of request id settled as state
Settle(ps, id, state) == [ps EXCEPT ![id] = state]

\* sendWorkerRequest with a worker: the request is registered under a fresh id,
\* its timeout is armed and the message is posted (without a worker the call
\* throws at once and issues nothing)
SendWorkerRequest ==
    /\ worker
    /\ requestCounter < MaxRequests
    /\ \E type \in RequestTypes :
          LET id == requestCounter + 1 IN
          /\ requestCounter' = id
          /\ pendingRequests' = pendingRequests \cup {id}
          /\ timeouts' = timeouts \cup {id}
          /\ inbox' = inbox \cup {Request(id, type)}
          /\ promises' = Append(promises, "pending")
    /\ UNCHANGED <<worker, initVars, simVars, fbVars, llmVars>>

\* handleWorkerMessage without the lookup in pendingRequests: the answer
\* settles the promise whether or not the request is still registered
HandleAnyWorkerMessage ==
    /\ \E m \in inbox : \E success \in BOOLEAN :
          /\ inbox' = inbox \ {m}
          /\ pendingRequests' = pendingRequests \ {m.id}
          /\ timeouts' = timeouts \ {m.id}
          /\ promises' = Settle(promises, m.id,
                                IF success THEN "resolved"
                                ELSE "rejected: Worker request failed")
          /\ IF success /\ m.type = "initialize" /\ TRUE
             THEN \E modelName \in Models : currentModel' = modelName
             ELSE UNCHANGED currentModel
    /\ UNCHANGED <<worker, requestCounter, isInitialized, isInitializing, initCalls,
                   simVars, fbVars, llmVars>>

\* the worker answers a posted request: handleWorkerMessage settles the
\* promise through the wrapped resolve or reject, which clears the timeout,
\* if the id is still registered, and ignores the answer otherwise
HandleWorkerMessage ==
    /\ \E m \in inbox : \E success \in BOOLEAN :
          /\ inbox' = inbox \ {m}
          /\ IF m.id \in pendingRequests
             THEN /\ pendingRequests' = pendingRequests \ {m.id}
                  /\ timeouts' = timeouts \ {m.id}
                  /\ promises' = Settle(promises, m.id,
                                        IF success THEN "resolved"
                                        ELSE "rejected: Worker request failed")
             ELSE UNCHANGED <<pendingRequests, timeouts, promises>>
          /\ IF success /\ m.type = "initialize" /\ m.id \in pendingRequests
             THEN \E modelName \in Models : currentModel' = modelName
             ELSE UNCHANGED currentModel
    /\ UNCHANGED <<worker, requestCounter, isInitialized, isInitializing, initCalls,
                   simVars, fbVars, llmVars>>

\* the fields of the service a handler reads and writes
Gateway ==
    [pendingRequests |-> pendingRequests, timeouts |-> timeouts, promises |-> promises]

\* a handler that empties the table and rejects nothing
clearPendingRequests(g) == [g EXCEPT !.pendingRequests = {}]

\* handleWorkerError: every registered request is rejected through its wrapped
\* reject, which clears its timeout, and is deleted from the table
handleWorkerError(g) ==
    [pendingRequests |-> {},
     timeouts |-> g.timeouts \ g.pendingRequests,
     promises |-> [id \in DOMAIN g.promises |->
                     IF id \in g.pendingRequests
                     THEN "rejected: Worker error occurred" ELSE g.promises[id]]]

\* worker.onerror fires
HandleWorkerError ==
    /\ worker
    /\ pendingRequests # {}
    /\ LET g == handleWorkerError(Gateway) IN
          /\ promises' = g.promises
          /\ timeouts' = g.timeouts
          /\ pendingRequests' = g.pendingRequests
    /\ UNCHANGED <<worker, requestCounter, inbox, initVars, simVars, fbVars, llmVars>>

\* the timeout of request id fires: it rejects the promise if the id is still
\* registered and does nothing otherwise
RequestTimeout(id) ==
    /\ id \in timeouts
    /\ timeouts' = timeouts \ {id}
    /\ IF id \in pendingRequests
       THEN /\ pendingRequests' = pendingRequests \ {id}
            /\ promises' = Settle(promises, id, "rejected: Worker request timeout")
       ELSE UNCHANGED <<pendingRequests, promises>>
    /\ UNCHANGED <<worker, requestCounter, inbox, initVars, simVars, fbVars, llmVars>>

TimeoutFires == \E id \in timeouts : RequestTimeout(id)

\* destroy(): the worker is terminated and forgotten, the two flags are
\* lowered, pendingRequests is cleared; no promise is settled and no timeout
\* is cleared
Destroy ==
    /\ worker
    /\ worker' = FALSE
    /\ inbox' = {}
    /\ isInitialized' = FALSE
    /\ isInitializing' = FALSE
    /\ pendingRequests' = {}
    /\ UNCHANGED <<requestCounter, timeouts, promises, currentModel, initCalls,
                   simVars, fbVars, llmVars>>

NextGateway ==
    \/ SendWorkerRequest
    \/ HandleWorkerMessage
    \/ HandleWorkerError
    \/ TimeoutFires
    \/ Destroy

\* an armed timeout fires: setTimeout callbacks are run by the event loop
SpecGateway == Init /\ [][NextGateway]_vars /\ WF_vars(TimeoutFires)

Issued(id) == id \in DOMAIN promises

Settled(id) == Issued(id) /\ promises[id] # "pending"

\* C10 -- Every request issued through the worker gateway is eventually
\* settled (resolved, or rejected by an error answer, a worker error or its
\* timeout), whatever the worker does and whatever is called meanwhile,
\* destroy() included.
RequestsSettle ==
    \A id \in 1 .. MaxRequests : (Issued(id) /\ ~Settled(id)) ~> Settled(id)

---------------------------------------------------------------------------
(* The fallback dialogue table (generateFallbackMessage), string by string *)
(* (the o-umlaut of one of alice's lines is written o).  The simulation    *)
(* above writes FallbackText for whichever of these strings is drawn.      *)

\* const messages = {...}
FallbackTable(otherName) ==
    [
        lucky |-> [start |->
            <<"Hi " \o otherName \o "! I just got back from the most amazing space adventure!",
              "Hello there! I'm Lucky, nice to meet you. Want to hear about my travels?",
              "Hey " \o otherName \o "! Have you heard any good gossip lately?">>,
                continue |->
            <<"That's really fascinating! It reminds me of something I saw on a distant planet.",
              "Wow, that's quite interesting! Space travel has taught me to appreciate different perspectives.",
              "Amazing! I'd love to hear more - I collect stories from my adventures.",
              "That's wonderful! Speaking of adventures, have I told you about the cheese mines of Zephyr Prime?">>],
        bob |-> [start |->
            <<"Oh, hi " \o otherName \o ". I was just... working with the plants.",
              "Hello. I'm Bob. I prefer to keep to myself, but nice to meet you.",
              "Hey there. I don't really talk much, but... hi.">>,
                continue |->
            <<"Yeah, sure. That's... nice.",
              "Hmm. Well, I should probably get back to my gardening.",
              "Uh-huh. Look, I'm not really good with people.",
              "Right. Well, plants don't usually disagree with you.">>],
        stella |-> [start |->
            <<"Well hello there, " \o otherName \o "! What a lovely day to meet someone new.",
              "Hi darling! I'm Stella. You look like someone with excellent taste.",
              "Hello gorgeous! I bet you have the most interesting stories.">>,
                continue |->
            <<"Oh how fascinating! You know, I have this wonderful opportunity I think you'd love...",
              "That's so clever of you! You seem like someone who appreciates good investments.",
              "How delightfully smart! I have a feeling we could help each other out.",
              "Such wisdom! You know, successful people like us should stick together.">>],
        alice |-> [start |->
            <<"Greetings " \o otherName \o ". I've been pondering the quantum implications of social interaction.",
              "Hello. I'm Alice. The universe whispers its secrets, but do we listen?",
              "Hi there. Time is a flat circle, but conversations are... spherical?">>,
                continue |->
            <<"Ah yes, the butterfly effect cascades through even the smallest utterances...",
              "Indeed, much like Schrodinger's cat, truth exists in superposition until observed.",
              "The mathematics of human connection follow such elegant algorithms...",
              "Fascinating! This reminds me of my work on interdimensional probability matrices.">>],
        pete |-> [start |->
            <<"Blessings upon you, " \o otherName \o "! The Lord has brought us together today.",
              "Hello my friend! I'm Pete. Have you considered the state of your eternal soul lately?",
              "Greetings! I see God's hand in our meeting today.">>,
                continue |->
            <<"Praise be! The Lord works in mysterious ways through all our conversations.",
              "Indeed, brother/sister! Though beware - the devil lurks in idle words.",
              "Hallelujah! Faith guides us through all of life's trials and tribulations.",
              "Amen! The righteous path is narrow, but salvation awaits the faithful.">>]
    ]

SeedIds == DOMAIN FallbackTable("")

\* what a call that throws leaves instead of a string
Thrown == "<TypeError>"

\* the phases generateConversationMessage passes on: 'start' | 'continue'
Phases == {"start", "continue"}

\* a table whose entry for agents it does not list is the empty string
fallbackWithoutDefault(id, otherName, type) ==
    IF id \notin SeedIds THEN {""}
    ELSE IF type \notin Phases THEN {Thrown}
    ELSE SeqToSet(FallbackTable(otherName)[id][type])

\* generateFallbackMessage: the strings the call may return, over the draws of
\* Math.random(); an agent the table does not list gets the two default
\* lines, a listed agent with a type the table does not hold reads .length
\* of undefined
generateFallbackMessage(id, otherName, type) ==
    IF id \notin SeedIds
    THEN {IF type = "start" THEN "Hello " \o otherName \o "!" ELSE "That's interesting."}
    ELSE IF type \notin Phases THEN {Thrown}
    ELSE SeqToSet(FallbackTable(otherName)[id][type])

\* the speakers: the seed archetypes, a user character and a custom NPC
Speakers == SeedIds \cup {UserId(1), NPCId(1)}

\* otherAgent.name
OtherNames == {"Lucky", "Bob", "Stella", "Alice", "Pete", "Visitor", "Robo"}

\* the arguments of the call, drawn
FallbackArguments ==
    /\ fbAgent \in Speakers
    /\ fbOther \in OtherNames
    /\ fbType \in Phases
    /\ fbMessage = NoText

\* the gateway has rejected and the catch block calls generateFallbackMessage
GenerateFallback ==
    /\ fbMessage = NoText
    /\ fbMessage' \in generateFallbackMessage(fbAgent, fbOther, fbType)
    /\ UNCHANGED <<fbAgent, fbOther, fbType, simVars, gwVars, llmVars>>

InitFallback ==
    /\ InitSimulation /\ InitGateway /\ FallbackArguments /\ InitNoCleaning
    /\ InitClientLLM /\ InitLLMWorker

NextFallback == GenerateFallback

SpecFallback == InitFallback /\ [][NextFallback]_vars

\* C9 -- Fallback correctness: with the gateway rejecting, the message of the
\* turn is what generateFallbackMessage returns; for every speaker (seed
\* archetype, user character, custom NPC) and both phases the call does not
\* throw and returns a non-empty string, whatever Math.random() draws.
FallbackNonEmpty ==
    /\ generateFallbackMessage(fbAgent, fbOther, fbType) # {}
    /\ \A m \in generateFallbackMessage(fbAgent, fbOther, fbType) :
          m # Thrown /\ Len(m) > 0
    /\ fbMessage # NoText => (fbMessage # Thrown /\ Len(fbMessage) > 0)

\* C9 witness: a custom NPC has opened a conversation with the fallback line
\* of the agents the table does not list
UnlistedSpeakerGreets ==
    /\ fbAgent = NPCId(1)
    /\ fbType = "start"
    /\ fbMessage = "Hello " \o fbOther \o "!"

---------------------------------------------------------------------------
(* The worker gateway: properties of the error path *)

\* C11 -- On a worker transport error every request in flight at that moment
\* is rejected and the pending-request table is left empty: handleWorkerError
\* run in any reachable state of a live service rejects every registered
\* request, leaves the table empty and the settled promises as they were, and
\* after it no issued request is pending.
WorkerErrorRejectsAll ==
    worker =>
        LET g == handleWorkerError(Gateway) IN
        /\ g.pendingRequests = {}
        /\ \A id \in DOMAIN promises :
              /\ id \in pendingRequests => g.promises[id] = "rejected: Worker error occurred"
              /\ id \notin pendingRequests => g.promises[id] = promises[id]
              /\ g.promises[id] # "pending"

\* C11 witness: two requests were in flight when the worker failed; both are
\* rejected with the worker error and the table is empty
WorkerCrashRejectedTwo ==
    /\ worker
    /\ pendingRequests = {}
    /\ Cardinality({id \in DOMAIN promises :
                       promises[id] = "rejected: Worker error occurred"}) >= 2

---------------------------------------------------------------------------
(* The simulation: properties of the handlers, stated on what each handler *)
(* can leave behind when it is run in a reachable state                    *)

\* the worlds a deferred turn, a resumed generation, a tick or a control
\* operation can leave behind
TurnOutcomes ==
    UNION {generateConversationMessage(
               [World EXCEPT !.timers = @ (-) SetToBag({t})], t.agentId, "continue") :
           t \in BagToSet(timers)}
ResumeOutcomes ==
    UNION {appendMessage(Resumed(p), p.agentId, p.otherId, p.conv, text) :
           p \in BagToSet(pendingGen), text \in {GeneratedText, FallbackText}}
GoalOutcomes ==
    UNION {giveNPCGoal(World, id, goal) : id \in Ids, goal \in GoalTexts}
TalkOutcomes ==
    UNION {makeNPCTalkTo(World, id, target) : id \in Ids, target \in Ids}
SendOutcomes ==
    UNION {sendUserMessage(World, id, text, target) :
           id \in Ids, text \in UserTexts, target \in Ids \cup {NoAgent}}
RemoveOutcomes ==
    UNION {removeUserCharacter(World, id) : id \in Ids}

HandlerOutcomes ==
    update(World) \cup TurnOutcomes \cup ResumeOutcomes \cup GoalOutcomes
        \cup TalkOutcomes \cup SendOutcomes \cup RemoveOutcomes

\* C12 -- startConversation precondition: every call of startConversation, by
\* the proximity scan, by a 'socialize' decision (in giveNPCGoal, at the end
\* of a conversation, in the idle pass), by makeNPCTalkTo and by
\* sendUserMessage, is made when neither of the two agents has a conversation.
StartsOnlyFreeAgents ==
    \A w \in HandlerOutcomes :
        \A i \in DOMAIN w.starts : w.starts[i].free

\* the calls of startConversation logged in w that name agent id
StartsOf(w, id) ==
    {i \in DOMAIN w.starts : id \in {w.starts[i].agent1Id, w.starts[i].agent2Id}}

\* C13 -- Within one tick's proximity scan an agent that has been placed in a
\* conversation is not considered for a later pair: one scan starts at most
\* one conversation per agent.
ScanStartsOnePerAgent ==
    \A w \in checkForConversations(updateMovement(World)) :
        \A id \in DOMAIN agents : Cardinality(StartsOf(w, id)) <= 1

---------------------------------------------------------------------------
(* The control API: refused calls *)

\* distances between a sender and a target beyond the reach of a direct message
FarDistances == {DirectMessageDistance + 1, 3 * DirectMessageDistance}

\* world w with agent id standing dist units along the line from agent target
Apart(w, id, target, dist) ==
    [w EXCEPT !.agents[id].position = Pos(w.agents[target].position.x + dist, LineY)]

IsUser(id) == id \in DOMAIN agents /\ agents[id].isUserControlled
IsNPC(id) == id \in DOMAIN agents /\ ~agents[id].isUserControlled
IsBusy(id) == id \in DOMAIN agents /\ agents[id].currentConversation # NoConv

\* the call returned false and left agents, conversations, deferred turns
\* and suspended generations as they were
Refused(outcomes, w) == outcomes = Fail(w)

\* C14 -- Control operations report precondition violations as a boolean
\* failure and change nothing: sendUserMessage when the sender is missing or
\* not user-controlled, when the target is missing, in a conversation or
\* farther than 80 units; moveUserCharacter and removeUserCharacter for a
\* missing or non-user agent; giveNPCGoal, directNPCToLocation and
\* makeNPCTalkTo for a missing or user-controlled agent, makeNPCTalkTo also
\* when either NPC is in a conversation.
RefusedCallsChangeNothing ==
    /\ \A id \in Ids : \A target \in Ids \cup {NoAgent} : \A text \in UserTexts :
          ~IsUser(id) => Refused(sendUserMessage(World, id, text, target), World)
    /\ \A id \in Ids : \A target \in Ids : \A text \in UserTexts :
          IsUser(id) /\ (target \notin DOMAIN agents \/ IsBusy(target))
              => Refused(sendUserMessage(World, id, text, target), World)
    /\ \A id \in DOMAIN agents : \A target \in DOMAIN agents \ {id} :
          \A text \in UserTexts : \A dist \in FarDistances :
              IsUser(id) =>
                  LET w == Apart(World, id, target, dist)
                  IN Refused(sendUserMessage(w, id, text, target), w)
    /\ \A id \in Ids :
          ~IsUser(id) =>
              /\ \A x \in MoveTargets :
                    Refused(moveUserCharacter(World, id, Pos(x, LineY)), World)
              /\ Refused(removeUserCharacter(World, id), World)
    /\ \A id \in Ids :
          ~IsNPC(id) =>
              /\ \A goal \in GoalTexts : Refused(giveNPCGoal(World, id, goal), World)
              /\ \A x \in MoveTargets :
                    Refused(directNPCToLocation(World, id, Pos(x, LineY)), World)
    /\ \A id \in Ids : \A target \in Ids :
          (~IsNPC(id) \/ ~IsNPC(target) \/ IsBusy(id) \/ IsBusy(target))
              => Refused(makeNPCTalkTo(World, id, target), World)

\* C14 witness: a user character stands next to an NPC that is in a
\* conversation and to one that is free; its message to the first is refused,
\* its message to the second is refused once it stands 81 units away, and an
\* attempt to move the busy NPC through the user-move call is refused
RefusedCallsHappen ==
    \E u \in DOMAIN agents : \E busy \in DOMAIN agents : \E free \in DOMAIN agents :
        /\ IsUser(u) /\ IsNPC(busy) /\ IsBusy(busy) /\ IsNPC(free) /\ ~IsBusy(free)
        /\ Refused(sendUserMessage(World, u, "hello", busy), World)
        /\ LET w == Apart(World, u, free, DirectMessageDistance + 1)
           IN Refused(sendUserMessage(w, u, "hello", free), w)
        /\ Refused(moveUserCharacter(World, busy, Pos(236, LineY)), World)
        /\ Refused(makeNPCTalkTo(World, free, busy), World)

\* both seats of every conversation in the registry are taken by different agents
DistinctParticipants ==
    \A c \in ConvIds :
        conversations[c].participants[1] # conversations[c].participants[2]

\* C15 -- Talking to oneself is rejected: makeNPCTalkTo(x, x) and
\* sendUserMessage(u, text, u) return false and create no conversation, so
\* every conversation in the registry has two distinct participants.
SelfTalkRejected ==
    /\ \A x \in DOMAIN agents : Refused(makeNPCTalkTo(World, x, x), World)
    /\ \A u \in DOMAIN agents : \A text \in UserTexts :
          Refused(sendUserMessage(World, u, text, u), World)
    /\ DistinctParticipants

---------------------------------------------------------------------------
(* The control API: direct user messages *)

\* a free user character u and a free NPC within reach of a direct message
CanAddress(u, npc) ==
    /\ IsUser(u) /\ ~IsBusy(u)
    /\ IsNPC(npc) /\ ~IsBusy(npc)
    /\ Dist2(agents[u].position, agents[npc].position)
           <= DirectMessageDistance * DirectMessageDistance

\* the conversations of w that the call just made has added to the registry
NewConvs(w) == (Len(conversations) + 1) .. Len(w.convs)

\* C16 -- Direct user message, content: when a free user-controlled agent
\* within 80 units of a free NPC calls sendUserMessage(user, text, npc), the
\* call returns true and a conversation between them exists whose first
\* message is the user's text with agentId = user, whether the gateway is
\* ready or not.
UserTextComesFirst ==
    \A u \in DOMAIN agents : \A npc \in DOMAIN agents : \A text \in UserTexts :
        CanAddress(u, npc) =>
            \A w \in sendUserMessage(World, u, text, npc) :
                /\ w.ret
                /\ \E c \in NewConvs(w) :
                      /\ SeqToSet(w.convs[c].participants) = {u, npc}
                      /\ w.convs[c].messages # <<>>
                      /\ w.convs[c].messages[1] = [agentId |-> u, text |-> text]

\* C17 -- Direct user message, scheduling: a successful
\* sendUserMessage(user, text, npc) on a free NPC leaves exactly one deferred
\* reply turn outstanding for the NPC in that conversation, not zero and not
\* two.
OneReplyScheduled ==
    \A u \in DOMAIN agents : \A npc \in DOMAIN agents : \A text \in UserTexts :
        CanAddress(u, npc) =>
            \A w \in sendUserMessage(World, u, text, npc) :
                w.ret => /\ NewConvs(w) # {}
                         /\ \A c \in NewConvs(w) :
                               CopiesIn(Timer(npc, c), w.timers) = 1

---------------------------------------------------------------------------
(* The control API: goals and directions given to NPCs *)

\* agents are added, the user character is sent somewhere, NPCs are given
\* goals and directions, the gateway comes up; no tick runs in between
NextGoals ==
    \/ AddUserCharacter
    \/ CreateCustomNPC
    \/ MoveUserCharacter
    \/ GiveNPCGoal
    \/ DirectNPCToLocation
    \/ GatewayChanges

SpecGoals == Init /\ [][NextGoals]_vars

\* the handler that left world w ran the Decision Engine exactly once, for
\* agent id; a decision starts one conversation, with id as initiator, or none
OneDecision(w, id) ==
    /\ Len(w.decisions) = 1
    /\ w.decisions[1].agent = id
    /\ Len(w.starts) <= 1
    /\ \A i \in DOMAIN w.starts : w.starts[i].agent1Id = id

\* C18 -- Goal injection: giveNPCGoal(npc, goal) on an existing non-user NPC
\* returns true, leaves goal at goals[0] with the goals present before
\* following in their previous order, five entries in total at most, and runs
\* one Decision Engine evaluation for that NPC before it returns.
GoalInjected ==
    \A id \in DOMAIN agents : \A goal \in GoalTexts :
        IsNPC(id) =>
            \A w \in giveNPCGoal(World, id, goal) :
                LET old == agents[id].goals
                    new == w.agents[id].goals
                IN /\ w.ret
                   /\ Len(new) = IF Len(old) + 1 > GoalCap THEN GoalCap ELSE Len(old) + 1
                   /\ new[1] = goal
                   /\ \A i \in 2 .. Len(new) : new[i] = old[i - 1]
                   /\ OneDecision(w, id)

\* C18 witness: an NPC holding five goals, the first of them a goal it was
\* given, the second a direction it was given before, is given one more goal
\* and drops its oldest one
FiveGoalsKept ==
    \E id \in DOMAIN agents :
        /\ IsNPC(id)
        /\ Len(agents[id].goals) = GoalCap
        /\ agents[id].goals[1] \in GoalTexts
        /\ agents[id].goals[2] = "Move to specified location"
        /\ \E w \in giveNPCGoal(World, id, "explore forest") :
              /\ w.agents[id].goals[2] = agents[id].goals[1]
              /\ w.agents[id].goals[GoalCap] = agents[id].goals[GoalCap - 1]
              /\ w.agents[id].goals[GoalCap] # agents[id].goals[GoalCap]

---------------------------------------------------------------------------
(* Conversation lifecycle: what the end of a conversation does *)

\* an active conversation of two agents that updateConversations will end:
\* older than 60 s
Overdue(c) ==
    /\ Active(c)
    /\ Cardinality(ParticipantsOf(c)) = 2
    /\ Age(c) > MaxDuration

\* agent p of world w has the movement state and the memories it has now
Undisturbed(w, p) ==
    /\ w.agents[p].isMoving = agents[p].isMoving
    /\ w.agents[p].targetPosition = agents[p].targetPosition
    /\ w.agents[p].position = agents[p].position
    /\ w.agents[p].memories = agents[p].memories

\* C19 -- Termination only frees the participants: ending a conversation
\* clears both participants' currentConversation, leaves their isMoving,
\* targetPosition, position and memories unchanged and starts no new
\* conversation in the same step.
EndOnlyFrees ==
    \A c \in ConvIds :
        Overdue(c) =>
            \A w \in endConversation(World, c) :
                /\ w.starts = <<>>
                /\ \A p \in ParticipantsOf(c) \cap DOMAIN agents :
                      /\ w.agents[p].currentConversation = NoConv
                      /\ Undisturbed(w, p)

---------------------------------------------------------------------------
(* Conversation lifecycle: from the proximity scan to the sixth message *)

\* the setInterval callback, with the conversations its scan starts recorded
ScanTick ==
    /\ steps < MaxSteps
    /\ steps' = steps + 1
    /\ \E w1 \in checkForConversations(updateMovement(World)) :
          \E w \in Bind(updateConversations(w1), planNewActions) :
              /\ Commit(w)
              /\ scanned' = scanned \cup ((Len(conversations) + 1) .. Len(w1.convs))
    /\ UNCHANGED <<llmReady, now, userCount, npcCount, rejections, readyChanges,
                   loopVars, crVars, gwVars, fbVars, llmVars>>

\* agents are added and the world runs: ticks, deferred turns, the gateway
NextLifecycle ==
    \/ AddUserCharacter
    \/ CreateCustomNPC
    \/ ScanTick
    \/ FireTimer
    \/ GenerationResolves
    \/ GenerationRejects
    \/ GatewayChanges

SpecLifecycle == Init /\ [][NextLifecycle]_vars

\* the worlds in which a deferred turn or a resumed generation has just
\* appended the sixth message of conversation c
SixthMessageOutcomes(c) ==
    {w \in TurnOutcomes \cup ResumeOutcomes :
        Len(w.convs[c].messages) = MessageCap}

\* C20 -- Conversation lifecycle end state: in a world where two free agents
\* were put into a conversation by the proximity scan, as soon as the sixth
\* message of that conversation has been appended both participants have
\* currentConversation undefined.
SixthMessageFreesBoth ==
    \A c \in scanned :
        Len(conversations[c].messages) = MessageCap - 1 =>
            \A w \in SixthMessageOutcomes(c) :
                \A p \in ParticipantsOf(c) \cap DOMAIN w.agents :
                    w.agents[p].currentConversation = NoConv

---------------------------------------------------------------------------
(* Movement: a user character walks to the point it was sent to *)

\* where the user character is sent
WalkTargets == {Pos(x, LineY) : x \in (202 - MaxWalk) .. (202 + MaxWalk)}

\* the world after addUserCharacter and moveUserCharacter(user, target):
\* lucky, and a user character on its way
InitMovement ==
    /\ \E target \in WalkTargets :
          agents = [id \in {"lucky", UserId(1)} |->
                       IF id = "lucky" THEN Lucky
                       ELSE [NewAgent("Visitor", 202, TRUE, <<>>,
                                      <<"Interact with other characters",
                                        "Have interesting conversations">>)
                               EXCEPT !.targetPosition = target, !.isMoving = TRUE]]
    /\ agentOrder = <<"lucky", UserId(1)>>
    /\ conversations = <<>>
    /\ ended = {}
    /\ timers = EmptyBag
    /\ pendingGen = EmptyBag
    /\ llmReady = FALSE
    /\ now = 0
    /\ userCount = 1
    /\ npcCount = 0
    /\ rejections = 0
    /\ readyChanges = 0
    /\ steps = 0
    /\ scanned = {}
    /\ isRunning = FALSE
    /\ updateInterval = 0
    /\ intervals = {}
    /\ intervalCount = 0
    /\ InitGateway
    /\ InitNoFallback
    /\ InitNoCleaning
    /\ InitClientLLM /\ InitLLMWorker

\* the setInterval callback, counted
WalkTick ==
    /\ steps < MaxWalkTicks
    /\ steps' = steps + 1
    /\ \E w \in update(World) : Commit(w)
    /\ UNCHANGED <<llmReady, now, userCount, npcCount, rejections, readyChanges,
                   scanned, loopVars, crVars, gwVars, fbVars, llmVars>>

NextMovement == WalkTick

SpecMovement == InitMovement /\ [][NextMovement]_vars

\* the agents on their way to a target
Walking == {id \in DOMAIN agents :
               agents[id].isMoving /\ agents[id].targetPosition # NoTarget}

\* how far agent a is from the point p
Away(a, p) == getDistance(a.position, p)

\* one updateMovement takes walking agent id 2 units closer to its target and
\* not past it, or, from less than 5 units away, stops it where it stands
\* and clears its target
StepsCloser(id) ==
    LET a == agents[id]
        b == updateMovement(World).agents[id]
        target == a.targetPosition
    IN IF Away(a, target) < ArrivalThreshold
       THEN /\ ~b.isMoving
            /\ b.targetPosition = NoTarget
            /\ b.position = a.position
       ELSE /\ b.isMoving
            /\ b.targetPosition = target
            /\ Away(b, target) = Away(a, target) - Speed
            /\ (target.x - b.position.x) * (target.x - a.position.x) >= 0
            /\ b.position.y = a.position.y

\* C21 -- Movement convergence: for a moving agent whose target is not
\* changed, each tick either decreases its distance to the target by the
\* speed 2, never overshooting, or, once the distance is below the arrival
\* threshold 5, sets isMoving to false and clears targetPosition; the agent
\* has arrived after at most (initial distance / speed) + 1 ticks.
MovementConverges ==
    /\ \A id \in Walking : StepsCloser(id)
    /\ \A id \in Walking :
          agents[id].isUserControlled =>
              LET initial == Away([position |-> Pos(202, LineY)],
                                  agents[id].targetPosition)
              IN /\ Away(agents[id], agents[id].targetPosition)
                        = initial - Speed * steps
                 /\ steps <= initial \div Speed

\* C21 witness: the user character sent 30 units away has arrived, 4 units
\* short of the point, on the fourteenth tick, and its target is cleared
WalkedAndArrived ==
    /\ steps = 14
    /\ ~agents[UserId(1)].isMoving
    /\ agents[UserId(1)].targetPosition = NoTarget
    /\ agents[UserId(1)].position = Pos(202 + MaxWalk - 4, LineY)

---------------------------------------------------------------------------
(* The tick: order of its phases *)

\* agents are added, the clock advances, the gateway comes up, and the tick
\* runs: nothing but the tick changes the agents and their conversations
NextTick ==
    \/ AddUserCharacter
    \/ CreateCustomNPC
    \/ AdvanceClock
    \/ GatewayChanges
    \/ Tick

SpecTick == Init /\ [][NextTick]_vars

\* the phases of a tick, in the order of the claim
TickPhases ==
    <<"updateMovement", "checkForConversations", "updateConversations",
      "planNewActions", "onUpdate">>

\* C22 -- Tick ordering: every tick performs, in this order, the movement
\* update, the proximity-triggered conversation start, the conversation
\* timeout check and the decision pass for idle agents, and then invokes the
\* registered observer callback exactly once, after all of that tick's
\* mutations.
TickInOrder ==
    \A w \in update(World) : w.phases = TickPhases

\* C22 witness: an agent on the last leg of its walk; the tick that makes it
\* arrive also puts it into a conversation started by the scan of that
\* tick, and has gone through the five phases in order
ArrivesAndIsPaired ==
    \E id \in Walking :
        /\ \E w \in checkForConversations(updateMovement(World)) :
              /\ ~w.agents[id].isMoving
              /\ StartsOf(w, id) # {}
        /\ \E w \in update(World) :
              /\ w.phases = TickPhases
              /\ w.agents[id].currentConversation \in NewConvs(w)

---------------------------------------------------------------------------
(* The tick loop: start() and stop() *)

Loop == [isRunning |-> isRunning, updateInterval |-> updateInterval,
         intervals |-> intervals, intervalCount |-> intervalCount]

\* start() without the test of isRunning
startAgain(l) ==
    LET id == l.intervalCount + 1
    IN [l EXCEPT !.isRunning = TRUE, !.intervalCount = id,
                 !.updateInterval = id, !.intervals = @ \cup {id}]

\* start()
start(l) ==
    IF l.isRunning THEN l
    ELSE LET id == l.intervalCount + 1
         IN [l EXCEPT !.isRunning = TRUE, !.intervalCount = id,
                      !.updateInterval = id, !.intervals = @ \cup {id}]

\* stop(); clearInterval of an id that is not armed does nothing
stop(l) ==
    LET l1 == [l EXCEPT !.isRunning = FALSE]
    IN IF l.updateInterval # 0
       THEN [l1 EXCEPT !.intervals = @ \ {l.updateInterval}]
       ELSE l1

\* the variables of the world
worldVars == <<agents, agentOrder, conversations, ended, timers, pendingGen,
               llmReady, now, userCount, npcCount, rejections, readyChanges,
               scanned, crVars>>

Start ==
    /\ steps < MaxSteps
    /\ steps' = steps + 1
    /\ start(Loop).intervalCount <= MaxIntervals
    /\ isRunning' = start(Loop).isRunning
    /\ updateInterval' = start(Loop).updateInterval
    /\ intervals' = start(Loop).intervals
    /\ intervalCount' = start(Loop).intervalCount
    /\ UNCHANGED <<worldVars, gwVars, fbVars, llmVars>>

Stop ==
    /\ steps < MaxSteps
    /\ steps' = steps + 1
    /\ isRunning' = stop(Loop).isRunning
    /\ updateInterval' = stop(Loop).updateInterval
    /\ intervals' = stop(Loop).intervals
    /\ intervalCount' = stop(Loop).intervalCount
    /\ UNCHANGED <<worldVars, gwVars, fbVars, llmVars>>

\* an armed interval timer fires: one tick
IntervalFires ==
    /\ Step
    /\ intervals # {}
    /\ \E id \in intervals : \E w \in update(World) : Commit(w)
    /\ UNCHANGED <<llmReady, now, userCount, npcCount, rejections, readyChanges>>

NextLoop ==
    \/ Start
    \/ Stop
    \/ IntervalFires
    \/ AddUserCharacter

SpecLoop == Init /\ [][NextLoop]_vars

\* C23 -- Single tick loop: after any sequence of start() and stop() calls at
\* most one tick timer is armed; start() while already running changes
\* nothing, and after stop() no tick runs until the next start().
SingleTickLoop ==
    /\ Cardinality(intervals) <= 1
    /\ isRunning => start(Loop) = Loop
    /\ ~isRunning => intervals = {}
    /\ stop(Loop).intervals = {}
    /\ ~stop(Loop).isRunning

\* C23 witness: the loop was started, stopped and started again, ticks have
\* run (lucky has taken a decision), and the one timer armed is the second
StartedTwice ==
    /\ isRunning
    /\ intervalCount = 2
    /\ intervals = {2}
    /\ Len(agents["lucky"].memories) > Len(Lucky.memories)

---------------------------------------------------------------------------
(* Agents: walking and talking *)

\* C24 -- In every reachable state no agent is at once isMoving and in a
\* conversation (currentConversation set), under any sequence of ticks,
\* decisions and control operations (moveUserCharacter, directNPCToLocation,
\* makeNPCTalkTo, giveNPCGoal).
NeverMovingInConversation ==
    \A id \in DOMAIN agents :
        ~(agents[id].isMoving /\ agents[id].currentConversation # NoConv)

---------------------------------------------------------------------------
(* cleanResponse (StaticAgentSimulation): a string is the sequence of its *)
(* characters                                                              *)

\* the characters responses are made of: the first letter of the speaker's
\* name, another letter, blank, colon, the sentence terminators, newline
Chars == {"L", "a", " ", ":", ".", "!", "?", "\n"}

\* characterName
Name == <<"L">>

\* \s
Blanks == {" ", "\n"}
\* [.!?]
Terminators == {".", "!", "?"}

\* what cleanResponse returns for an empty result
HiThere == <<"H", "i", " ", "t", "h", "e", "r", "e", "!">>

\* substring(0, 200)
LengthCap == 200

\* the 'i' flag of the RegExp
Lower(c) == IF c = "L" THEN "l" ELSE IF c = "H" THEN "h" ELSE c
LowerAll(s) == [i \in DOMAIN s |-> Lower(s[i])]

RECURSIVE DropBlanks(_)
\* \s* at the start
DropBlanks(s) ==
    IF s # <<>> /\ Head(s) \in Blanks THEN DropBlanks(Tail(s)) ELSE s

RECURSIVE DropBlanksAtEnd(_)
DropBlanksAtEnd(s) ==
    IF s # <<>> /\ s[Len(s)] \in Blanks
    THEN DropBlanksAtEnd(SubSeq(s, 1, Len(s) - 1)) ELSE s

\* String.trim
Trim(s) == DropBlanksAtEnd(DropBlanks(s))

\* response.replace(new RegExp(`^${characterName}:?\\s*`, 'i'), '')
StripName(s, name) ==
    IF Len(s) >= Len(name) /\ LowerAll(SubSeq(s, 1, Len(name))) = LowerAll(name)
    THEN LET rest == SubSeq(s, Len(name) + 1, Len(s))
             afterColon == IF rest # <<>> /\ Head(rest) = ":" THEN Tail(rest) ELSE rest
         IN DropBlanks(afterColon)
    ELSE s

\* response.replace(/\n.*$/s, ''): everything from the first newline on goes
FirstLine(s) ==
    IF \E i \in DOMAIN s : s[i] = "\n"
    THEN SubSeq(s, 1, (CHOOSE i \in DOMAIN s :
                          s[i] = "\n" /\ \A j \in 1 .. i - 1 : s[j] # "\n") - 1)
    ELSE s

RECURSIVE DropTerminators(_)
DropTerminators(s) ==
    IF s # <<>> /\ Head(s) \in Terminators THEN DropTerminators(Tail(s)) ELSE s

RECURSIVE SplitSentences(_)
\* response.split(/[.!?]+/)
SplitSentences(s) ==
    IF \E i \in DOMAIN s : s[i] \in Terminators
    THEN LET i == CHOOSE k \in DOMAIN s :
                     s[k] \in Terminators /\ \A j \in 1 .. k - 1 : s[j] \notin Terminators
         IN <<SubSeq(s, 1, i - 1)>>
                \o SplitSentences(DropTerminators(SubSeq(s, i, Len(s))))
    ELSE <<s>>

RECURSIVE JoinWithPeriod(_)
\* sentences.join('.')
JoinWithPeriod(pieces) ==
    IF pieces = <<>> THEN <<>>
    ELSE IF Len(pieces) = 1 THEN pieces[1]
    ELSE pieces[1] \o <<".">> \o JoinWithPeriod(Tail(pieces))

\* cleanResponse
cleanResponse(response, characterName) ==
    LET r1 == StripName(response, characterName)
        r2 == FirstLine(r1)
        r3 == Trim(FirstN(r2, LengthCap))
        sentences == SplitSentences(r3)
        r4 == IF Len(sentences) > 1
              THEN JoinWithPeriod(SubSeq(sentences, 1, Len(sentences) - 1)) \o <<".">>
              ELSE r3
    IN IF r4 = <<>> THEN HiThere ELSE r4

RECURSIVE StringsUpTo(_)
\* the strings of at most n characters
StringsUpTo(n) ==
    IF n = 0 THEN {<<>>}
    ELSE LET shorter == StringsUpTo(n - 1)
         IN shorter \cup {Append(s, c) : s \in shorter, c \in Chars}

\* a response arrives from the gateway
CleanArguments ==
    /\ crResponse \in StringsUpTo(MaxResponseLen)
    /\ crCleaned = NotCleaned

InitClean ==
    /\ InitSimulation /\ InitGateway /\ InitNoFallback /\ CleanArguments
    /\ InitClientLLM /\ InitLLMWorker

CleanResponse ==
    /\ crCleaned = NotCleaned
    /\ crCleaned' = cleanResponse(crResponse, Name)
    /\ UNCHANGED <<crResponse, agents, agentOrder, conversations, ended, timers,
                   pendingGen, llmReady, now, userCount, npcCount, rejections,
                   readyChanges, steps, scanned, loopVars, gwVars, fbVars, llmVars>>

NextClean == CleanResponse

SpecClean == InitClean /\ [][NextClean]_vars

\* a single line that does not start with the speaker's name and consists of
\* complete sentences only: after trimming, it starts with a word and its
\* last character is a terminator
CompleteSentences(s) ==
    /\ \A i \in DOMAIN s : s[i] # "\n"
    /\ StripName(s, Name) = s
    /\ Trim(s) # <<>>
    /\ Trim(s)[1] \notin Terminators
    /\ Trim(s)[Len(Trim(s))] \in Terminators

\* C25 -- Sanitization idempotence: for every single-line input of at most
\* 200 characters that does not start with the speaker's name and consists
\* only of complete sentences, cleanResponse returns the input unchanged up
\* to trimming and an appended final period (interior and final '!' and '?'
\* are preserved), and cleanResponse(cleanResponse(x)) = cleanResponse(x) for
\* every input x.
CleanIsIdempotent ==
    crCleaned # NotCleaned =>
        /\ CompleteSentences(crResponse) =>
              crCleaned \in {Trim(crResponse), Trim(crResponse) \o <<".">>}
        /\ cleanResponse(crCleaned, Name) = crCleaned

---------------------------------------------------------------------------
(* The Decision Engine: when it runs *)

\* the decisions logged in w that agent id has taken
DecisionsOf(w, id) == {i \in DOMAIN w.decisions : w.decisions[i].agent = id}

\* C26 -- The Decision Engine evaluates and commits an option for an agent
\* only when that agent, at that moment, has no conversation, is not moving
\* and is not user-controlled, and at most once per agent per tick; the only
\* permitted exception is the forced re-evaluation of giveNPCGoal.
DecidesOnlyWhenIdle ==
    /\ \A w \in update(World) :
          \A id \in DOMAIN agents : Cardinality(DecisionsOf(w, id)) <= 1
    /\ \A w \in update(World) \cup TurnOutcomes \cup ResumeOutcomes
                   \cup TalkOutcomes \cup SendOutcomes \cup RemoveOutcomes :
          \A i \in DOMAIN w.decisions :
              /\ ~w.decisions[i].busy
              /\ ~w.decisions[i].moving
              /\ ~agents[w.decisions[i].agent].isUserControlled


---------------------------------------------------------------------------
(* The target of 'socialize' *)

\* the other agents a 'socialize' decision of agent id may address: free and
\* within the radius
FreeNearby(w, id) == SeqToSet(availableAgents(w, id))

\* C27: 'socialize' is on offer only when another free agent (in no
\* conversation, not moving) lies within 200 units of the deciding agent, and
\* its target is the nearest of them: no free agent within the radius is
\* strictly closer to the deciding agent than the target
SocializeTargetsNearest ==
    \A id \in DOMAIN agents :
        \A d \in evaluateDecisionOptions(World, id) :
            d.type = "socialize" =>
                /\ FreeNearby(World, id) # {}
                /\ d.target \in FreeNearby(World, id)
                /\ \A o \in FreeNearby(World, id) :
                       Dist2(agents[id].position, agents[o].position)
                           >= Dist2(agents[id].position, agents[d.target].position)

---------------------------------------------------------------------------
(* The memory list *)

\* C28: the memory list of every agent holds at most 10 entries, whatever
\* decisions (explore, return_home, idle) and control operations (giveNPCGoal,
\* directNPCToLocation) have appended to it
MemoryCapped ==
    \A id \in DOMAIN agents : Len(agents[id].memories) <= MemoryCap

---------------------------------------------------------------------------
(* The control API: an NPC told to talk to another *)

\* where createCustomNPC may also put a new agent: 100, 101 and 150 from lucky
DistantSpawnXs == {300, 301, 350}

CreateDistantNPC ==
    /\ Step
    /\ npcCount < MaxNPCs
    /\ npcCount' = npcCount + 1
    /\ \E x \in DistantSpawnXs :
          \E w \in createCustomNPC(World, NPCId(npcCount + 1), x) :
              Commit(w)
    /\ UNCHANGED <<llmReady, now, userCount, rejections, readyChanges>>

\* an NPC is created near lucky or away from it, NPCs are told to talk to each
\* other, ticks run and the gateway comes up
NextTalk ==
    \/ CreateCustomNPC
    \/ CreateDistantNPC
    \/ MakeNPCTalkTo
    \/ Tick
    \/ GatewayChanges

SpecTalk == Init /\ [][NextTalk]_vars

\* the point StandOff units short of position q for an agent at position p,
\* both on the line
ShortOf(p, q) == Pos(IF p.x < q.x THEN q.x - StandOff ELSE q.x + StandOff, LineY)

\* C29 -- Forced NPC-to-NPC talk: for two distinct NPCs in no conversation,
\* makeNPCTalkTo(a, b) returns true; at a distance of at most 100 the call
\* creates one conversation, with a as initiator, that both are in; beyond 100
\* it creates no conversation, sets a moving toward the point 50 units short of
\* b on the line from a to b and puts "Talk to <b's name>" at a.goals[0].
ForcedTalk ==
    \A a \in DOMAIN agents : \A b \in DOMAIN agents :
        (a # b /\ IsNPC(a) /\ IsNPC(b) /\ ~IsBusy(a) /\ ~IsBusy(b)) =>
            \A w \in makeNPCTalkTo(World, a, b) :
                /\ w.ret
                /\ IF Dist2(agents[a].position, agents[b].position)
                          <= TalkDistance * TalkDistance
                   THEN /\ NewConvs(w) = {Len(conversations) + 1}
                        /\ w.convs[Len(w.convs)].participants = <<a, b>>
                        /\ w.agents[a].currentConversation = Len(w.convs)
                        /\ w.agents[b].currentConversation = Len(w.convs)
                   ELSE /\ w.convs = conversations
                        /\ w.agents[a].currentConversation = NoConv
                        /\ w.agents[b] = agents[b]
                        /\ w.agents[a].isMoving
                        /\ w.agents[a].targetPosition
                               = ShortOf(agents[a].position, agents[b].position)
                        /\ w.agents[a].goals
                               = <<"Talk to " \o agents[b].name>> \o agents[a].goals

\* C29 witness: an NPC more than 100 units from lucky has been told to talk to
\* it: it is in no conversation, it walks to the point 50 units short of lucky
\* and "Talk to Lucky" is the first of its goals
ToldToTalkFromAfar ==
    \E a \in DOMAIN agents :
        /\ IsNPC(a) /\ a # "lucky"
        /\ Dist2(agents[a].position, agents["lucky"].position)
               > TalkDistance * TalkDistance
        /\ agents[a].goals[1] = "Talk to Lucky"
        /\ agents[a].isMoving
        /\ agents[a].targetPosition
               = ShortOf(agents[a].position, agents["lucky"].position)
        /\ agents[a].currentConversation = NoConv
        /\ conversations = <<>>

---------------------------------------------------------------------------
(* Turn-taking *)

\* C30 -- Turn-taking: in every conversation the first message is by the
\* initiator, participants[0], and any two consecutive messages are by
\* different participants, whatever the interleaving of deferred turns,
\* pending generations and ticks.
TurnsAlternate ==
    \A cid \in DOMAIN conversations :
        LET c == conversations[cid] IN
        /\ c.messages # <<>> => c.messages[1].agentId = c.participants[1]
        /\ \A i \in 1 .. Len(c.messages) - 1 :
               /\ c.messages[i].agentId # c.messages[i + 1].agentId
               /\ c.messages[i + 1].agentId \in SeqToSet(c.participants)

---------------------------------------------------------------------------
(* Generations that complete after their conversation has ended *)

\* C31 -- No message is appended to a conversation after it has been
\* terminated: a generation that was awaiting the gateway when its
\* conversation ended (by timeout or by an explicit end) appends nothing to
\* that conversation and schedules no further turn when it completes, with
\* the generated text or, after a rejection, with the fallback line.
EndedConversationsStayClosed ==
    \A p \in BagToSet(pendingGen) :
        p.conv \in ended =>
            \A text \in {GeneratedText, FallbackText} :
                \A w \in appendMessage(Resumed(p), p.agentId, p.otherId, p.conv, text) :
                    /\ w.convs[p.conv].messages = conversations[p.conv].messages
                    /\ w.timers = timers

---------------------------------------------------------------------------
(* Who speaks in a conversation *)

\* C32 -- In every reachable state, every message stored in a conversation has
\* an agentId that is one of that conversation's participants.
SpeakersAreParticipants ==
    \A cid \in DOMAIN conversations :
        \A i \in DOMAIN conversations[cid].messages :
            conversations[cid].messages[i].agentId
                \in SeqToSet(conversations[cid].participants)

\* C32 witness: a user character in a conversation has typed a message
\* addressed to an agent outside it; the text is stored in the user's own
\* conversation, next to a line of the other participant
TypedIntoOwnConversation ==
    \E cid \in DOMAIN conversations :
        LET c == conversations[cid] IN
        /\ "npc_1" \in DOMAIN agents
        /\ "npc_1" \notin SeqToSet(c.participants)
        /\ Timer("npc_1", cid) \in BagToSet(timers)
        /\ \E i \in DOMAIN c.messages :
              /\ c.messages[i].text \in UserTexts
              /\ IsUser(c.messages[i].agentId)
        /\ \E i \in DOMAIN c.messages :
              /\ c.messages[i].text = FallbackText
              /\ IsNPC(c.messages[i].agentId)

\* C33 -- The simulation never speaks for the user: every message whose
\* agentId is a user-controlled agent carries text passed to a sendUserMessage
\* call; neither the gateway path nor the fallback table produces a message
\* on behalf of a user-controlled agent.
NeverSpeaksForUser ==
    \A cid \in DOMAIN conversations :
        \A i \in DOMAIN conversations[cid].messages :
            IsUser(conversations[cid].messages[i].agentId)
                => conversations[cid].messages[i].text \in UserTexts

---------------------------------------------------------------------------
(* Removing a user character *)

\* C34 -- After removeUserCharacter(u) returns true, u is absent from the
\* agent registry and no remaining agent's currentConversation refers to a
\* conversation that lists u as a participant.
RemovedUserLeavesNoConversation ==
    \A u \in DOMAIN agents :
        \A w \in removeUserCharacter(World, u) :
            w.ret =>
                /\ u \notin DOMAIN w.agents
                /\ \A id \in DOMAIN w.agents :
                       w.agents[id].currentConversation # NoConv =>
                           u \notin SeqToSet(
                               w.convs[w.agents[id].currentConversation].participants)

---------------------------------------------------------------------------
(* The worker gateway: how often a request is settled *)

\* the answers of the worker that a step has handled
Answered == inbox \ inbox'

\* C35 -- Each gateway request is settled at most once: a worker response that
\* arrives after the request's timeout has fired is ignored, the timeout of a
\* request that was already answered has no effect, and a response is
\* delivered only to the request whose id it carries.
SettledAtMostOnce ==
    [][/\ \A id \in DOMAIN promises :
             Settled(id) => promises'[id] = promises[id]
       /\ (worker' = worker /\ Answered # {}) =>
             \A id \in DOMAIN promises :
                 promises'[id] # promises[id] => id \in {m.id : m \in Answered}
       /\ \A id \in DOMAIN promises :
             (id \notin timeouts /\ id \notin pendingRequests) =>
                 (id \notin timeouts' /\ id \notin pendingRequests')]_vars

\* C35 witness: the timeout of a request has rejected its promise and the
\* worker's answer to that request has arrived afterwards
AnsweredAfterTimeout ==
    \E id \in DOMAIN promises :
        /\ promises[id] = "rejected: Worker request timeout"
        /\ worker
        /\ \A type \in RequestTypes : Request(id, type) \notin inbox

---------------------------------------------------------------------------
(* The worker gateway: initialize().  A call returns at once, waits in the  *)
(* polling loop for the initialization in progress, or takes the flag and   *)
(* awaits an 'initialize' request; the continuation of an await runs as a   *)
(* microtask, before any other callback.                                    *)

\* a request that was never issued: sendWorkerRequest threw 'Worker not
\* available'
NoRequest == 0

\* a call of initialize(): where it stands and the request it awaits
InitCall(pc, req) == [pc |-> pc, req |-> req]

\* call c stands after  await this.sendWorkerRequest(...)  and the promise it
\* awaits is settled
Resumable(c) ==
    /\ initCalls[c].pc = "awaiting"
    /\ initCalls[c].req = NoRequest \/ Settled(initCalls[c].req)

\* no continuation is waiting in the microtask queue
NoMicrotask == \A c \in DOMAIN initCalls : ~Resumable(c)

\* initialize(modelName) up to its first await
Initialize ==
    /\ NoMicrotask
    /\ Len(initCalls) < MaxInitCalls
    /\ \E modelName \in Models :
          IF isInitialized /\ currentModel = modelName
          THEN /\ initCalls' = Append(initCalls, InitCall("resolved", NoRequest))
               /\ UNCHANGED <<worker, requestCounter, pendingRequests, timeouts,
                              inbox, promises, isInitialized, isInitializing,
                              currentModel>>
          ELSE IF isInitializing
          THEN /\ initCalls' = Append(initCalls, InitCall("waiting", NoRequest))
               /\ UNCHANGED <<worker, requestCounter, pendingRequests, timeouts,
                              inbox, promises, isInitialized, isInitializing,
                              currentModel>>
          ELSE /\ isInitializing' = TRUE
               /\ IF worker /\ requestCounter < MaxRequests
                  THEN LET id == requestCounter + 1 IN
                       /\ requestCounter' = id
                       /\ pendingRequests' = pendingRequests \cup {id}
                       /\ timeouts' = timeouts \cup {id}
                       /\ inbox' = inbox \cup {Request(id, "initialize")}
                       /\ promises' = Append(promises, "pending")
                       /\ initCalls' = Append(initCalls, InitCall("awaiting", id))
                  ELSE /\ ~worker
                       /\ initCalls' = Append(initCalls,
                                              InitCall("awaiting", NoRequest))
                       /\ UNCHANGED <<requestCounter, pendingRequests, timeouts,
                                      inbox, promises>>
               /\ UNCHANGED <<worker, isInitialized, currentModel>>
    /\ UNCHANGED <<simVars, fbVars, llmVars>>

\* initialize() after the await: the try block goes on or the catch block
\* rethrows, then the finally block lowers the flag
InitializeResumes ==
    /\ \E c \in DOMAIN initCalls :
          /\ Resumable(c)
          /\ IF initCalls[c].req # NoRequest /\ promises[initCalls[c].req] = "resolved"
             THEN /\ isInitialized' = TRUE
                  /\ initCalls' = [initCalls EXCEPT ![c].pc = "resolved"]
             ELSE /\ initCalls' = [initCalls EXCEPT ![c].pc = "rejected"]
                  /\ UNCHANGED isInitialized
    /\ isInitializing' = FALSE
    /\ UNCHANGED <<worker, requestCounter, pendingRequests, timeouts, inbox,
                   promises, currentModel, simVars, fbVars, llmVars>>

\* the polling loop of a waiting call finds the flag lowered and the call
\* returns
WaitIsOver ==
    /\ NoMicrotask
    /\ ~isInitializing
    /\ \E c \in DOMAIN initCalls :
          /\ initCalls[c].pc = "waiting"
          /\ initCalls' = [initCalls EXCEPT ![c].pc = "resolved"]
    /\ UNCHANGED <<worker, requestCounter, pendingRequests, timeouts, inbox,
                   promises, isInitialized, isInitializing, currentModel,
                   simVars, fbVars, llmVars>>

\* the callbacks of the gateway, run when no continuation is waiting
GatewayCallback ==
    /\ NoMicrotask
    /\ \/ HandleWorkerMessage
       \/ HandleWorkerError
       \/ TimeoutFires
       \/ Destroy

NextInitialize ==
    \/ Initialize
    \/ InitializeResumes
    \/ WaitIsOver
    \/ GatewayCallback

SpecInitialize == Init /\ [][NextInitialize]_vars

\* call c of initialize() resolves in this step
Resolves(c) ==
    /\ c \in DOMAIN initCalls'
    /\ initCalls'[c].pc = "resolved"
    /\ c \in DOMAIN initCalls => initCalls[c].pc # "resolved"

\* C36 -- Whenever a call of the worker gateway's initialize() resolves
\* (rather than rejects), the service is initialized: isInitialized is true.
\* This includes a call made while another initialize() was in progress, also
\* when that other initialization fails.
ResolvedMeansInitialized ==
    [][\A c \in 1 .. MaxInitCalls : Resolves(c) => isInitialized']_vars

---------------------------------------------------------------------------
(* ClientLLMService.initialize.  A call runs to its first await            *)
(* (detectCapabilities), then to the await of the pipeline, then to its    *)
(* end; the fallback  return this.initialize('Xenova/distilgpt2')  is a    *)
(* nested call made inside the try or the catch block, before the finally  *)
(* block has run.                                                          *)

\* a top-level call of initialize(): its target, where it stands, the device
\* of the pipeline it awaits, and whether it has taken the fallback
LLMCall(targetModel, pc, device, fellBack) ==
    [targetModel |-> targetModel, pc |-> pc, device |-> device,
     fellBack |-> fellBack]

\* isReady()
isReady(svc) == svc.textGenerator # NoModel /\ ~svc.isLoading

\* the nested call  this.initialize('Xenova/distilgpt2')  made by a call that
\* holds isLoading: the service as the nested call leaves it.  The nested call
\* returns at one of the two guards of initialize; the caller holds the flag,
\* so the nested call never gets past them
nestedInitialize(svc) ==
    IF svc.textGenerator # NoModel /\ svc.currentModel = DistilGPT2 THEN svc
    ELSE IF svc.isLoading THEN svc
    ELSE [svc EXCEPT !.isLoading = TRUE]

\* return this.initialize('Xenova/distilgpt2') followed by the finally block
fallBack(svc) == [nestedInitialize(svc) EXCEPT !.isLoading = FALSE]

\* initialize(modelName) up to  await backendDetector.detectCapabilities()
LLMInitialize ==
    /\ Len(llmCalls) < MaxLLMCalls
    /\ \E targetModel \in Models :
          IF clientLLM.textGenerator # NoModel /\ clientLLM.currentModel = targetModel
          THEN /\ llmCalls' = Append(llmCalls,
                                     LLMCall(targetModel, "resolved", "none", FALSE))
               /\ UNCHANGED clientLLM
          ELSE IF clientLLM.isLoading
          THEN /\ llmCalls' = Append(llmCalls,
                                     LLMCall(targetModel, "resolved", "none", FALSE))
               /\ UNCHANGED clientLLM
          ELSE /\ clientLLM' = [clientLLM EXCEPT !.isLoading = TRUE]
               /\ llmCalls' = Append(llmCalls,
                                     LLMCall(targetModel, "detecting", "none", FALSE))
    /\ UNCHANGED <<llmWorker, workerCalls, simVars, gwVars, fbVars>>

\* from the capabilities to  await pipeline(...) : the checks of WebGPU either
\* take the fallback or choose the device of the pipeline; webgpu stands for
\* capabilities.webgpu and webgpuDiagnostics.available, webgpuInit for the
\* success of initializeWebGPUForTransformers
CapabilitiesDetected ==
    /\ \E c \in DOMAIN llmCalls :
          /\ llmCalls[c].pc = "detecting"
          /\ \E webgpu \in BOOLEAN : \E webgpuInit \in BOOLEAN :
                LET target == llmCalls[c].targetModel
                    unavailable == IF requiresWebGPU(target)
                                   THEN ~webgpu \/ ~webgpuInit
                                   ELSE ~webgpu
                IN IF unavailable
                   THEN /\ clientLLM' = fallBack(clientLLM)
                        /\ llmCalls' = [llmCalls EXCEPT ![c].pc = "resolved",
                                                        ![c].fellBack = TRUE]
                   ELSE /\ llmCalls' =
                               [llmCalls EXCEPT
                                   ![c].pc = "loading",
                                   ![c].device = IF requiresWebGPU(target)
                                                 THEN "webgpu" ELSE "wasm"]
                        /\ UNCHANGED clientLLM
    /\ UNCHANGED <<llmWorker, workerCalls, simVars, gwVars, fbVars>>

\* the pipeline is created: the generator and the model are set and the
\* finally block lowers the flag
PipelineLoads ==
    /\ \E c \in DOMAIN llmCalls :
          /\ llmCalls[c].pc = "loading"
          /\ clientLLM' = [clientLLM EXCEPT
                              !.textGenerator = llmCalls[c].targetModel,
                              !.currentModel = llmCalls[c].targetModel,
                              !.isLoading = FALSE]
          /\ llmCalls' = [llmCalls EXCEPT ![c].pc = "resolved"]
    /\ UNCHANGED <<llmWorker, workerCalls, simVars, gwVars, fbVars>>

\* the pipeline fails: a WebGPU pipeline is tried again on WASM; otherwise
\* the catch block takes the fallback for a model other than DistilGPT-2 and
\* rethrows for DistilGPT-2, and the finally block lowers the flag
PipelineFails ==
    /\ \E c \in DOMAIN llmCalls :
          /\ llmCalls[c].pc = "loading"
          /\ IF llmCalls[c].device = "webgpu"
             THEN /\ llmCalls' = [llmCalls EXCEPT ![c].device = "wasm"]
                  /\ UNCHANGED clientLLM
             ELSE IF llmCalls[c].targetModel # DistilGPT2
             THEN /\ clientLLM' = fallBack(clientLLM)
                  /\ llmCalls' = [llmCalls EXCEPT ![c].pc = "resolved",
                                                  ![c].fellBack = TRUE]
             ELSE /\ clientLLM' = [clientLLM EXCEPT !.isLoading = FALSE]
                  /\ llmCalls' = [llmCalls EXCEPT ![c].pc = "rejected"]
    /\ UNCHANGED <<llmWorker, workerCalls, simVars, gwVars, fbVars>>

NextService ==
    \/ LLMInitialize
    \/ CapabilitiesDetected
    \/ PipelineLoads
    \/ PipelineFails

SpecService == Init /\ [][NextService]_vars

\* C37 -- Model-load fallback: when initialize(M) for a model M other than
\* 'Xenova/distilgpt2' fails to load M (or M requires WebGPU that is not
\* available), the service loads 'Xenova/distilgpt2' instead: when the call
\* resolves after taking the fallback, isReady() is true and the current
\* model is 'Xenova/distilgpt2'.  (No load of the fallback model fails here:
\* a failed load of 'Xenova/distilgpt2' rejects the call.)
FallbackModelLoaded ==
    [][\A c \in DOMAIN llmCalls :
          (/\ llmCalls[c].pc # "resolved"
           /\ llmCalls'[c].pc = "resolved"
           /\ llmCalls'[c].fellBack
           /\ llmCalls[c].targetModel # DistilGPT2)
              => /\ isReady(clientLLM')
                 /\ clientLLM'.currentModel = DistilGPT2]_vars

---------------------------------------------------------------------------
(* The LLM worker: initializeLLM.  A call returns at once, waits in the     *)
(* polling loop, or takes isInitializing and runs the body: it awaits the   *)
(* capabilities, then the pipeline.  A failed initialization of a model     *)
(* other than DistilGPT-2 calls initializeLLM('Xenova/distilgpt2') from its *)
(* catch block; its finally block runs when that nested call has reached    *)
(* its first await.                                                         *)

\* a call of initializeLLM(): its argument, where it stands, the device of
\* the pipeline it awaits
WorkerCall(modelName, pc, device) ==
    [modelName |-> modelName, pc |-> pc, device |-> device]

\* initializeLLM(modelName) up to its first await: the worker's variables
\* after it and where the call stands
initializeLLM(wk, modelName) ==
    IF wk.isInitialized /\ wk.textGenerator # NoModel
          /\ wk.currentModelName = modelName
    THEN [wk |-> wk, pc |-> "returned"]
    ELSE IF wk.isInitializing
    THEN [wk |-> wk, pc |-> "waiting"]
    ELSE LET locked == [wk EXCEPT !.isInitializing = TRUE]
         IN [wk |-> IF wk.textGenerator # NoModel /\ wk.currentModelName # modelName
                    THEN [locked EXCEPT !.textGenerator = NoModel,
                                        !.isInitialized = FALSE]
                    ELSE locked,
             pc |-> "detecting"]

\* call c has taken the lock and has not reached the end of its finally block
InBody(c) == workerCalls[c].pc \in {"detecting", "loading"}

\* the catch block of call c, then its finally block: for a model other than
\* DistilGPT-2 the lock is reset and the nested call is made, for DistilGPT-2
\* the error is rethrown; the finally block lowers the flag
catchInitializeLLM(c) ==
    IF workerCalls[c].modelName # DistilGPT2
    THEN LET nested == initializeLLM([llmWorker EXCEPT !.isInitializing = FALSE],
                                     DistilGPT2)
         IN /\ llmWorker' = [nested.wk EXCEPT !.isInitializing = FALSE]
            /\ workerCalls' = Append([workerCalls EXCEPT ![c].pc = "delegated"],
                                     WorkerCall(DistilGPT2, nested.pc, "none"))
    ELSE /\ llmWorker' = [llmWorker EXCEPT !.isInitializing = FALSE]
         /\ workerCalls' = [workerCalls EXCEPT ![c].pc = "failed"]

\* an 'initialize' message: initializeLLM(data.modelName)
WorkerInitialize ==
    /\ Len(workerCalls) < MaxWorkerCalls
    /\ \E modelName \in Models :
          LET call == initializeLLM(llmWorker, modelName) IN
          /\ llmWorker' = call.wk
          /\ workerCalls' = Append(workerCalls, WorkerCall(modelName, call.pc, "none"))
    /\ UNCHANGED <<clientLLM, llmCalls, simVars, gwVars, fbVars>>

\* a 'switchModel' message: switchModel(data.modelName)
WorkerSwitchModel ==
    /\ Len(workerCalls) < MaxWorkerCalls
    /\ \E modelName \in Models :
          IF llmWorker.currentModelName = modelName
                /\ llmWorker.textGenerator # NoModel /\ llmWorker.isInitialized
          THEN /\ workerCalls' = Append(workerCalls,
                                        WorkerCall(modelName, "returned", "none"))
               /\ UNCHANGED llmWorker
          ELSE LET cleared == IF llmWorker.textGenerator # NoModel
                              THEN [llmWorker EXCEPT !.textGenerator = NoModel,
                                                     !.isInitialized = FALSE]
                              ELSE llmWorker
                   call == initializeLLM(cleared, modelName)
               IN /\ llmWorker' = call.wk
                  /\ workerCalls' = Append(workerCalls,
                                           WorkerCall(modelName, call.pc, "none"))
    /\ UNCHANGED <<clientLLM, llmCalls, simVars, gwVars, fbVars>>

\* detectCapabilities and configureEnvironment are done: a model that needs
\* WebGPU throws without it, otherwise the pipeline is awaited
WorkerDetected ==
    /\ \E c \in DOMAIN workerCalls : \E webGPUSupported \in BOOLEAN :
          /\ workerCalls[c].pc = "detecting"
          /\ IF requiresWebGPU(workerCalls[c].modelName) /\ ~webGPUSupported
             THEN catchInitializeLLM(c)
             ELSE /\ workerCalls' =
                        [workerCalls EXCEPT
                            ![c].pc = "loading",
                            ![c].device = IF requiresWebGPU(workerCalls[c].modelName)
                                          THEN "webgpu" ELSE "wasm"]
                  /\ UNCHANGED llmWorker
    /\ UNCHANGED <<clientLLM, llmCalls, simVars, gwVars, fbVars>>

\* the pipeline is created, then the finally block
WorkerPipelineLoads ==
    /\ \E c \in DOMAIN workerCalls :
          /\ workerCalls[c].pc = "loading"
          /\ llmWorker' = [textGenerator |-> workerCalls[c].modelName,
                           isInitialized |-> TRUE,
                           isInitializing |-> FALSE,
                           currentModelName |-> workerCalls[c].modelName]
          /\ workerCalls' = [workerCalls EXCEPT ![c].pc = "returned"]
    /\ UNCHANGED <<clientLLM, llmCalls, simVars, gwVars, fbVars>>

\* the pipeline fails: a WebGPU pipeline is tried again on WASM, any other
\* failure goes to the catch block
WorkerPipelineFails ==
    /\ \E c \in DOMAIN workerCalls :
          /\ workerCalls[c].pc = "loading"
          /\ IF workerCalls[c].device = "webgpu"
             THEN /\ workerCalls' = [workerCalls EXCEPT ![c].device = "wasm"]
                  /\ UNCHANGED llmWorker
             ELSE catchInitializeLLM(c)
    /\ UNCHANGED <<clientLLM, llmCalls, simVars, gwVars, fbVars>>

\* the polling loop of a waiting call finds the flag lowered
WorkerWaitIsOver ==
    /\ ~llmWorker.isInitializing
    /\ \E c \in DOMAIN workerCalls :
          /\ workerCalls[c].pc = "waiting"
          /\ workerCalls' = [workerCalls EXCEPT ![c].pc = "returned"]
    /\ UNCHANGED <<llmWorker, clientLLM, llmCalls, simVars, gwVars, fbVars>>

NextWorker ==
    \/ WorkerInitialize
    \/ WorkerSwitchModel
    \/ WorkerDetected
    \/ WorkerPipelineLoads
    \/ WorkerPipelineFails
    \/ WorkerWaitIsOver

SpecWorker == Init /\ [][NextWorker]_vars

\* C38 -- Worker initialization lock: inside the LLM worker at most one model
\* initialization (the body of initializeLLM between taking and releasing
\* isInitializing) is in progress at any time, also while the fallback load
\* of 'Xenova/distilgpt2' started from a failed initialization is running
\* and further 'initialize' or 'switchModel' messages arrive.
OneInitializationAtATime ==
    Cardinality({c \in DOMAIN workerCalls : InBody(c)}) <= 1
===========================================================================
